---- MODULE Spec2Model ----
(***************************************************************************)
(* Model of spirius-smpp-tools: the correlation tracker and the            *)
(* send-receive orchestrator of tools/smpp_receiver.py, the life cycle of  *)
(* one run of the receiver and of the sender (tools/smpp_sender.py), the  *)
(* text codecs and address validators of common/smpp_common.py, and the    *)
(* automatic choice of an encoding of tools/sms_encoder.py and             *)
(* tools/sms_decoder.py.                                                   *)
(*                                                                         *)
(* Text is a sequence of Unicode code points, a byte string a sequence of  *)
(* numbers 0..255.  The 'timestamp' entries of the tracker's records are   *)
(* written by the handlers and read by nothing; they are left out.         *)
(* Console output is modelled only where a claim is about it (the final    *)
(* report line of main).                                                   *)
(***************************************************************************)
EXTENDS Integers, Sequences, FiniteSets, TLC

VARIABLES
    sent_messages,              \* smpp_receiver.py:52, in insertion order
    received_messages,          \* smpp_receiver.py:53
    delivery_reports_received,  \* smpp_receiver.py:54
    mo_received,                \* the threading.Event of main (line 354)
    clock,                      \* time.time(), in half seconds
    opc,                        \* position of main's thread
    start_time,                 \* main's start_time (line 409)
    wake,                       \* when main's time.sleep(0.5) returns
    report,                     \* the final report line main printed
    lpc,                        \* position of the listener thread
    cur,                        \* the listener's local mo_message
    resp_pending,               \* the submit_sm_resp is sent and not yet read
    inbound,                    \* number of deliver PDUs read so far
    connected,                  \* the session is open
    \* one run of a tool from the creation of the client to the exit
    tool_args,                  \* which tool runs, with its --mode and --ssl
    phase,                      \* position of main in the run
    client,                     \* the name client is bound to a Client
    teardown,                   \* the unbind/disconnect calls made, in order
    logged,                     \* the lines printed about the run's end
    exit_status,                \* the exit status of the process
    \* one application of the codecs
    in_text,               \* the text given to encode_sms_message
    in_bytes,                  \* the bytes given to decode_sms_message
    in_coding,                \* the selector given to both
    out_encoded,                    \* what encode_sms_message returned or raised
    out_decoded,                    \* what decode_sms_message returned
    \* one application of the address validators
    in_address,                    \* the string given to validate_source_address
    verdict,                    \* what the validators answered
    \* one call of a handler of the listener
    in_pdu,                     \* the PDU the handler was called with
    \* the same two confirmations in the two orders of arrival
    order,                      \* which of the two arrives first in this run
    instants,                   \* the two instants of arrival
    first_outcome,              \* what the run in the other order reported
    \* one application of the automatic choice of an encoding
    auto_result                 \* what auto_select_encoding or
                                \* auto_detect_encoding returned

life_vars == <<tool_args, phase, client, teardown, logged, exit_status>>
codec_vars == <<in_text, in_bytes, in_coding, out_encoded, out_decoded>>
addr_vars == <<in_address, verdict>>
handler_vars == <<in_pdu>>
pair_vars == <<order, instants, first_outcome>>
auto_vars == <<auto_result>>
\* what a run of the tracker or of the orchestrator leaves alone
other_vars == <<life_vars, codec_vars, addr_vars, handler_vars, pair_vars,
                auto_vars>>

vars == <<sent_messages, received_messages, delivery_reports_received,
          mo_received, clock, opc, start_time, wake, report, lpc, cur,
          resp_pending, inbound, connected, life_vars, codec_vars, addr_vars,
          handler_vars, pair_vars, auto_vars>>

-----------------------------------------------------------------------------
(* Bounds of the model *)

MaxSent == 2        \* sequence numbers a submit_sm_resp may carry: 1..MaxSent
MaxReceived == 2    \* deliver PDUs ingested by the tracker specification
MaxInbound == 2     \* deliver PDUs the peer sends during one send-receive run
MaxLen == 2         \* length of the texts and byte strings given to the codecs
MaxAddrLen == 17    \* length of the addresses given to the validators

-----------------------------------------------------------------------------
(* Text helpers: str methods and the two regular expressions *)

Min(S) == CHOOSE x \in S : \A y \in S : x <= y

\* pat in text
Contains(text, pat) ==
    \E i \in 1..(Len(text) - Len(pat) + 1) :
        SubSeq(text, i, i + Len(pat) - 1) = pat

\* text.startswith(pat)
StartsWith(text, pat) ==
    /\ Len(text) >= Len(pat)
    /\ SubSeq(text, 1, Len(pat)) = pat

\* \d of a str pattern, over the code points the codecs below can produce
\* from the model's payloads (no other decimal digit occurs in them)
Digits == 48..57

\* [A-Z]
UpperCase == 65..90

S_id == <<105, 100, 58>>               \* "id:"
S_stat == <<115, 116, 97, 116, 58>>    \* "stat:"
S_b_id == <<98, 39, 105, 100, 58>>     \* "b'id:"
S_None == <<78, 111, 110, 101>>        \* "None"

UNDELIV == <<85, 78, 68, 69, 76, 73, 86>>
REJECTD == <<82, 69, 74, 69, 67, 84, 68>>
EXPIRED == <<69, 88, 80, 73, 82, 69, 68>>
UNKNOWN == <<85, 78, 75, 78, 79, 87, 78>>
DELIVRD == <<68, 69, 76, 73, 86, 82, 68>>

\* positions where pat is directly followed by a character of the class cls
MatchStarts(text, pat, cls) ==
    {i \in 1..(Len(text) - Len(pat)) :
        /\ SubSeq(text, i, i + Len(pat) - 1) = pat
        /\ text[i + Len(pat)] \in cls}

\* end of the longest run of cls characters that starts at position from
RunEnd(text, from, cls) ==
    CHOOSE j \in from..Len(text) :
        /\ \A k \in from..j : text[k] \in cls
        /\ j = Len(text) \/ text[j + 1] \notin cls

\* re.search(pat + '(' + cls + '+)', text): <<>> when there is no match,
\* else <<group(1)>> of the leftmost match
ReSearch(text, pat, cls) ==
    LET starts == MatchStarts(text, pat, cls) IN
    IF starts = {} THEN <<>>
    ELSE LET i == Min(starts) + Len(pat) IN
         <<SubSeq(text, i, RunEnd(text, i, cls))>>

\* re.search(r'id:(\d+)', text)
id_match(text) == ReSearch(text, S_id, Digits)

\* re.search(r'stat:([A-Z]+)', text)
status_match(text) == ReSearch(text, S_stat, UpperCase)

-----------------------------------------------------------------------------
(* Codecs of common/smpp_common.py *)

\* smpplib.gsm.GSM_CHARACTER_TABLE as gsm_decode indexes it: 128 entries of
\* the default alphabet, then 128 of the extension table
GSM_CHARACTER_TABLE == <<
    64, 163, 36, 165, 232, 233, 249, 236, 242, 199, 10, 216, 248, 13, 197, 229,
    916, 95, 934, 915, 923, 937, 928, 936, 931, 920, 926, 27, 198, 230, 223, 201,
    32, 33, 34, 35, 164, 37, 38, 39, 40, 41, 42, 43, 44, 45, 46, 47,
    48, 49, 50, 51, 52, 53, 54, 55, 56, 57, 58, 59, 60, 61, 62, 63,
    161, 65, 66, 67, 68, 69, 70, 71, 72, 73, 74, 75, 76, 77, 78, 79,
    80, 81, 82, 83, 84, 85, 86, 87, 88, 89, 90, 196, 214, 209, 220, 96,
    191, 97, 98, 99, 100, 101, 102, 103, 104, 105, 106, 107, 108, 109, 110, 111,
    112, 113, 114, 115, 116, 117, 118, 119, 120, 121, 122, 228, 246, 241, 252, 224,
    96, 96, 96, 96, 96, 96, 96, 96, 96, 96, 96, 96, 96, 96, 96, 96,
    96, 96, 96, 96, 94, 96, 96, 96, 96, 96, 96, 96, 96, 96, 96, 96,
    96, 96, 96, 96, 96, 96, 96, 96, 123, 125, 96, 96, 96, 96, 96, 92,
    96, 96, 96, 96, 96, 96, 96, 96, 96, 96, 96, 96, 91, 126, 93, 96,
    124, 96, 96, 96, 96, 96, 96, 96, 96, 96, 96, 96, 96, 96, 96, 96,
    96, 96, 96, 96, 96, 96, 96, 96, 96, 96, 96, 96, 96, 96, 96, 96,
    96, 96, 96, 96, 96, 8364, 96, 96, 96, 96, 96, 96, 96, 96, 96, 96,
    96, 96, 96, 96, 96, 96, 96, 96, 96, 96, 96, 96, 96, 96, 96, 96 >>

ESCAPE == 27          \* 0x1B
EXT_OFFSET == 128     \* 0x80
QUESTION_MARK == 63   \* '?'
REPLACEMENT == 65533  \* U+FFFD, what errors='replace' decodes to

\* gsm_decode_from without the escape branch of lines 347-351
RECURSIVE gsm_decode_from_no_escape(_, _)
gsm_decode_from_no_escape(encoded_bytes, i) ==
    IF i >= Len(encoded_bytes) THEN <<>>
    ELSE <<GSM_CHARACTER_TABLE[encoded_bytes[i + 1] + 1]>>
         \o gsm_decode_from_no_escape(encoded_bytes, i + 1)

\* the while loop of gsm_decode, from 0-based index i
RECURSIVE gsm_decode_from(_, _)
gsm_decode_from(encoded_bytes, i) ==
    IF i >= Len(encoded_bytes) THEN <<>>
    ELSE
        LET byte_val == encoded_bytes[i + 1]
            escaped == byte_val = ESCAPE /\ i + 1 < Len(encoded_bytes)
            char_index == IF escaped THEN encoded_bytes[i + 2] + EXT_OFFSET
                          ELSE byte_val
            step == IF escaped THEN 2 ELSE 1
            ch == IF char_index < Len(GSM_CHARACTER_TABLE)
                  THEN GSM_CHARACTER_TABLE[char_index + 1]
                  ELSE QUESTION_MARK
        IN <<ch>> \o gsm_decode_from(encoded_bytes, i + step)

\* gsm_decode of a bytes object
gsm_decode(encoded_bytes) == gsm_decode_from(encoded_bytes, 0)

\* bytes.decode('ascii', errors='replace')
decode_ascii(b) ==
    [i \in 1..Len(b) |-> IF b[i] < 128 THEN b[i] ELSE REPLACEMENT]

\* bytes.decode('iso-8859-1', errors='replace')
decode_latin1(b) == [i \in 1..Len(b) |-> b[i]]

IsCont(x) == x \in 128..191

\* number of continuation bytes the lead byte b0 announces; -1: no lead byte
Utf8Need(b0) ==
    IF b0 < 128 THEN 0
    ELSE IF b0 \in 194..223 THEN 1
    ELSE IF b0 \in 224..239 THEN 2
    ELSE IF b0 \in 240..244 THEN 3
    ELSE -1

\* the values the byte after the lead byte b0 may take
Utf8Second(b0) ==
    IF b0 = 224 THEN 160..191
    ELSE IF b0 = 237 THEN 128..159
    ELSE IF b0 = 240 THEN 144..191
    ELSE IF b0 = 244 THEN 128..143
    ELSE 128..191

\* how many bytes from 1-based position p belong to one sequence that is
\* well formed as far as it goes (at least 1)
Utf8Good(b, p) ==
    LET need == Utf8Need(b[p])
        ok(k) == /\ p + k <= Len(b)
                 /\ IF k = 1 THEN b[p + 1] \in Utf8Second(b[p])
                    ELSE IsCont(b[p + k])
    IN IF need <= 0 THEN 1
       ELSE IF ~ok(1) THEN 1
       ELSE IF need = 1 THEN 2
       ELSE IF ~ok(2) THEN 2
       ELSE IF need = 2 THEN 3
       ELSE IF ~ok(3) THEN 3
       ELSE 4

\* the sequence at p is complete and well formed
Utf8Complete(b, p) ==
    Utf8Need(b[p]) >= 0 /\ Utf8Good(b, p) = Utf8Need(b[p]) + 1

Utf8CodePoint(b, p) ==
    LET need == Utf8Need(b[p]) IN
    IF need = 0 THEN b[p]
    ELSE IF need = 1 THEN (b[p] - 192) * 64 + (b[p + 1] - 128)
    ELSE IF need = 2
         THEN (b[p] - 224) * 4096 + (b[p + 1] - 128) * 64 + (b[p + 2] - 128)
    ELSE (b[p] - 240) * 262144 + (b[p + 1] - 128) * 4096
           + (b[p + 2] - 128) * 64 + (b[p + 3] - 128)

\* bytes.decode('utf-8', errors=...) from position p; bad is what one
\* malformed sequence decodes to: <<REPLACEMENT>> for 'replace', <<>> for 'ignore'
RECURSIVE decode_utf8_from(_, _, _)
decode_utf8_from(b, p, bad) ==
    IF p > Len(b) THEN <<>>
    ELSE IF Utf8Complete(b, p)
         THEN <<Utf8CodePoint(b, p)>> \o decode_utf8_from(b, p + Utf8Good(b, p), bad)
         ELSE bad \o decode_utf8_from(b, p + Utf8Good(b, p), bad)

\* decode_utf8_replace with errors='ignore' in place of errors='replace'
decode_utf8_dropping(b) == decode_utf8_from(b, 1, <<>>)

decode_utf8_replace(b) == decode_utf8_from(b, 1, <<REPLACEMENT>>)
decode_utf8_ignore(b) == decode_utf8_from(b, 1, <<>>)

\* bytes.decode('utf-8') raises UnicodeDecodeError
RECURSIVE utf8_invalid_from(_, _)
utf8_invalid_from(b, p) ==
    IF p > Len(b) THEN FALSE
    ELSE IF Utf8Complete(b, p) THEN utf8_invalid_from(b, p + Utf8Good(b, p))
    ELSE TRUE

utf8_strict_raises(b) == utf8_invalid_from(b, 1)

\* bytes.decode('utf-8') of a byte string for which it does not raise
decode_utf8_strict(b) == decode_utf8_from(b, 1, <<>>)

\* bytes.decode('utf-16be', errors='replace') from position p
RECURSIVE decode_utf16be_from(_, _)
decode_utf16be_from(b, p) ==
    IF p > Len(b) THEN <<>>
    ELSE IF p = Len(b) THEN <<REPLACEMENT>>
    ELSE
        LET u == b[p] * 256 + b[p + 1] IN
        IF u \notin 55296..57343 THEN <<u>> \o decode_utf16be_from(b, p + 2)
        ELSE IF u >= 56320 THEN <<REPLACEMENT>> \o decode_utf16be_from(b, p + 2)
        ELSE IF p + 3 > Len(b) THEN <<REPLACEMENT>>
        ELSE
            LET v == b[p + 2] * 256 + b[p + 3] IN
            IF v \in 56320..57343
            THEN <<65536 + (u - 55296) * 1024 + (v - 56320)>>
                     \o decode_utf16be_from(b, p + 4)
            ELSE <<REPLACEMENT>> \o decode_utf16be_from(b, p + 2)

decode_utf16be(b) == decode_utf16be_from(b, 1)

\* a Python value that is bytes, str or None: [kind, val]
Bytes(v) == [kind |-> "bytes", val |-> v]
Str(v) == [kind |-> "str", val |-> v]
None == [kind |-> "none", val |-> <<>>]

\* str(x) of a value that is not bytes
str(x) == IF x.kind = "none" THEN S_None ELSE x.val

\* decode_sms_message(raw_bytes, data_coding); no branch of the try block can
\* raise (every decode has errors='replace'), so the except branch is dead
decode_sms_message(raw_bytes, data_coding) ==
    IF raw_bytes.kind # "bytes" THEN str(raw_bytes)
    ELSE IF data_coding = 0 THEN gsm_decode(raw_bytes.val)
    ELSE IF data_coding = 1 THEN decode_ascii(raw_bytes.val)
    ELSE IF data_coding = 2 THEN decode_utf8_replace(raw_bytes.val)
    ELSE IF data_coding = 3 THEN decode_latin1(raw_bytes.val)
    ELSE IF data_coding = 8 THEN decode_utf16be(raw_bytes.val)
    ELSE IF (data_coding \div 16) % 16 = 15 THEN gsm_decode(raw_bytes.val)
    ELSE gsm_decode(raw_bytes.val)

-----------------------------------------------------------------------------
(* The correlation tracker of tools/smpp_receiver.py *)

\* dict.get(key, default)
Get(d, key, default) == IF key \in DOMAIN d THEN d[key] ELSE default

\* d[key] = value
SetKey(d, key, value) ==
    [k \in DOMAIN d \cup {key} |-> IF k = key THEN value ELSE d[k]]

\* sent_messages is a dict keyed by sequence number; it is kept as the
\* sequence of its items in insertion order, which is the order
\* sent_messages.items() iterates in
SentIndex(sent, seq) ==
    IF \E i \in DOMAIN sent : sent[i].sequence = seq
    THEN CHOOSE i \in DOMAIN sent : sent[i].sequence = seq
    ELSE 0

\* sent_messages[seq] = info
StoreSent(sent, seq, info) ==
    IF SentIndex(sent, seq) # 0
    THEN [sent EXCEPT ![SentIndex(sent, seq)].info = info]
    ELSE Append(sent, [sequence |-> seq, info |-> info])

\* message_sent_result looking for the new record's delivery report among
\* the events already logged
message_sent_result_matching_log(sent, pdu) ==
    IF "sequence" \notin DOMAIN pdu THEN sent
    ELSE LET id == IF pdu.message_id.kind = "bytes"
                   THEN decode_utf8_ignore(pdu.message_id.val)
                   ELSE str(pdu.message_id)
             reported ==
                \E i \in DOMAIN received_messages :
                    /\ received_messages[i].is_delivery_report
                    /\ id_match(received_messages[i].text) # <<>>
                    /\ id_match(received_messages[i].text)[1] = id
         IN StoreSent(sent, pdu.sequence,
                IF reported
                THEN [message_id |-> pdu.message_id, dlr_received |-> TRUE]
                ELSE [message_id |-> pdu.message_id])

\* message_sent_handler(pdu): the dict after the handler
message_sent_result(sent, pdu) ==
    IF "sequence" \in DOMAIN pdu
    THEN StoreSent(sent, pdu.sequence, [message_id |-> pdu.message_id])
    ELSE sent

\* the id of a sent record in string form (lines 245-249)
sent_id_str(info) ==
    IF info.message_id.kind = "bytes"
    THEN decode_utf8_ignore(info.message_id.val)
    ELSE str(info.message_id)

\* is_delivery_report without the "b'id:" prefix test
is_delivery_report_markers_only(message_text) ==
    Contains(message_text, S_id) /\ Contains(message_text, S_stat)

\* line 154
is_delivery_report(message_text) ==
    \/ Contains(message_text, S_id) /\ Contains(message_text, S_stat)
    \/ StartsWith(message_text, S_b_id)

\* source_addr.decode('utf-8') if bytes else str(source_addr), for an address
\* whose decoding does not raise
addr_str(a) == IF a.kind = "bytes" THEN decode_utf8_strict(a.val) ELSE str(a)

\* the statements of mo_message_handler that can raise before anything is
\* stored: the strict decoding of the two addresses (lines 150-151)
handler_raises(pdu) ==
    /\ pdu.command = "deliver_sm"
    /\ \/ pdu.source_addr.kind = "bytes" /\ utf8_strict_raises(pdu.source_addr.val)
       \/ pdu.destination_addr.kind = "bytes"
            /\ utf8_strict_raises(pdu.destination_addr.val)

\* the dict mo_message built at lines 157-164 (without its timestamp)
mo_message(pdu) ==
    LET message_text == decode_sms_message(pdu.short_message, pdu.data_coding) IN
    [source |-> addr_str(pdu.source_addr),
     destination |-> addr_str(pdu.destination_addr),
     text |-> message_text,
     is_delivery_report |-> is_delivery_report(message_text),
     sequence |-> pdu.sequence]

\* correlated_index stopping at the last matching record instead of the first
correlated_index_last(sent, msg) ==
    IF ~msg.is_delivery_report THEN 0
    ELSE LET m == id_match(msg.text) IN
         IF m = <<>> THEN 0
         ELSE LET hits == {i \in DOMAIN sent : sent_id_str(sent[i].info) = m[1]} IN
              IF hits = {} THEN 0 ELSE CHOOSE i \in hits : \A j \in hits : j <= i

\* check_message_correlation: the position in sent of the record the loop at
\* lines 244-260 stops at, 0 when the function returns False
correlated_index(sent, msg) ==
    IF ~msg.is_delivery_report THEN 0
    ELSE LET m == id_match(msg.text) IN
         IF m = <<>> THEN 0
         ELSE LET hits == {i \in DOMAIN sent : sent_id_str(sent[i].info) = m[1]} IN
              IF hits = {} THEN 0 ELSE Min(hits)

\* line 253
mark_dlr_received(sent, i) ==
    [sent EXCEPT ![i].info = SetKey(@, "dlr_received", TRUE)]

\* lines 256-258
store_dlr_status(sent, i, text) ==
    LET m == status_match(text) IN
    IF m # <<>> THEN [sent EXCEPT ![i].info = SetKey(@, "dlr_status", m[1])]
    ELSE sent

\* check_message_correlation(mo_message): the dict after the call
check_message_correlation(sent, msg) ==
    LET i == correlated_index(sent, msg) IN
    IF i = 0 THEN sent
    ELSE store_dlr_status(mark_dlr_received(sent, i), i, msg.text)

FAILED_STATUSES == {UNDELIV, REJECTD, EXPIRED, UNKNOWN}

\* lines 271-272
has_mo_message(received) ==
    Cardinality({i \in DOMAIN received : ~received[i].is_delivery_report}) > 0

\* line 275
all_dlrs_received(sent) ==
    \A i \in DOMAIN sent : Get(sent[i].info, "dlr_received", FALSE)

\* lines 279-281
has_failed_delivery(sent) ==
    \E i \in DOMAIN sent :
        /\ Get(sent[i].info, "dlr_received", FALSE)
        /\ "dlr_status" \in DOMAIN sent[i].info
        /\ sent[i].info.dlr_status \in FAILED_STATUSES

\* has_received_all_confirmations without the early return of lines 267-268
has_received_all_confirmations_no_guard ==
    \/ has_mo_message(received_messages) /\ all_dlrs_received(sent_messages)
    \/ has_failed_delivery(sent_messages)

\* has_received_all_confirmations()
has_received_all_confirmations ==
    IF sent_messages = <<>> THEN FALSE
    ELSE \/ has_mo_message(received_messages) /\ all_dlrs_received(sent_messages)
         \/ has_failed_delivery(sent_messages)

-----------------------------------------------------------------------------
(* The PDUs the listener is handed *)

P_hi == <<104, 105>>                              \* "hi"
P_dlr1_DELIVRD ==                                 \* "id:1 stat:DELIVRD"
    <<105, 100, 58, 49, 32, 115, 116, 97, 116, 58, 68, 69, 76, 73, 86, 82, 68>>
P_dlr1_UNDELIV ==                                 \* "id:1 stat:UNDELIV"
    <<105, 100, 58, 49, 32, 115, 116, 97, 116, 58, 85, 78, 68, 69, 76, 73, 86>>
P_dlr2_DELIVRD ==                                 \* "id:2 stat:DELIVRD"
    <<105, 100, 58, 50, 32, 115, 116, 97, 116, 58, 68, 69, 76, 73, 86, 82, 68>>
P_dlr1_lower ==                                   \* "id:1 stat:ok"
    <<105, 100, 58, 49, 32, 115, 116, 97, 116, 58, 111, 107>>
P_b_id1 == <<98, 39, 105, 100, 58, 49>>           \* "b'id:1"

A_46 == <<52, 54>>                                \* b"46"
A_12 == <<49, 50>>                                \* b"12"
A_bad == <<255>>                                  \* b"\xff", not UTF-8

DeliverSm(payload, src) ==
    [command |-> "deliver_sm", sequence |-> 1,
     source_addr |-> Bytes(src), destination_addr |-> Bytes(A_12),
     short_message |-> Bytes(payload), data_coding |-> 0]

SubmitSmResp(seq, id) ==
    [command |-> "submit_sm_resp", sequence |-> seq, message_id |-> id]

\* what the tracker specification feeds the two handlers
MessageIds == {Bytes(<<49>>), Str(<<50>>)}
SentPdus == {SubmitSmResp(n, id) : n \in 1..MaxSent, id \in MessageIds}
Payloads == {P_hi, P_dlr1_DELIVRD, P_dlr1_UNDELIV, P_dlr2_DELIVRD,
             P_dlr1_lower, P_b_id1}
DeliverPdus == {DeliverSm(p, A_46) : p \in Payloads} \cup {DeliverSm(P_hi, A_bad)}

\* what the peer sends during one send-receive run
RunPayloads == {P_hi, P_dlr1_DELIVRD, P_dlr1_UNDELIV}
RunPdus == {DeliverSm(p, A_46) : p \in RunPayloads} \cup {DeliverSm(P_hi, A_bad)}
RunResp == SubmitSmResp(1, Bytes(<<49>>))

-----------------------------------------------------------------------------
(* State *)

NoMsg == [source |-> <<>>, destination |-> <<>>, text |-> <<>>,
          is_delivery_report |-> FALSE, sequence |-> 0]
NoReport == [kind |-> "none", mo |-> 0, dlr |-> 0, color |-> "none"]

RUNNING == -1   \* exit_status while the process runs

\* no value: the call was not made, or the input not given
Absent == [kind |-> "absent", val |-> <<>>]

\* no run of a tool is modelled
LifeIdle ==
    /\ tool_args = [tool |-> "receiver", mode |-> "send-receive", ssl |-> FALSE]
    /\ phase = "idle"
    /\ client = FALSE
    /\ teardown = <<>>
    /\ logged = <<>>
    /\ exit_status = RUNNING

\* no codec is applied
CodecIdle ==
    /\ in_text = <<>>
    /\ in_bytes = <<>>
    /\ in_coding = 0
    /\ out_encoded = Absent
    /\ out_decoded = Absent

\* no in_address is validated
AddrIdle ==
    /\ in_address = <<>>
    /\ verdict = Absent

\* no handler is called on its own
HandlerIdle == in_pdu = Absent

\* no pair of runs is compared
PairIdle ==
    /\ order = "none"
    /\ instants = <<>>
    /\ first_outcome = "none"

\* no encoding is chosen automatically
AutoIdle == auto_result = Absent

\* the tracker and the two threads before anything happened
ThreadsIdle ==
    /\ sent_messages = <<>>
    /\ received_messages = <<>>
    /\ delivery_reports_received = <<>>
    /\ mo_received = FALSE
    /\ clock = 0
    /\ opc = "start"
    /\ start_time = 0
    /\ wake = 0
    /\ report = NoReport
    /\ lpc = "idle"
    /\ cur = NoMsg
    /\ resp_pending = FALSE
    /\ inbound = 0
    /\ connected = TRUE

RunIdle == ThreadsIdle /\ HandlerIdle /\ PairIdle /\ AutoIdle

Init == RunIdle /\ LifeIdle /\ CodecIdle /\ AddrIdle

tracker_vars == <<sent_messages, received_messages, delivery_reports_received,
                  mo_received>>
main_vars == <<clock, opc, start_time, wake, report, connected>>
listener_vars == <<lpc, cur, resp_pending, inbound>>

-----------------------------------------------------------------------------
(* The two handlers, each run to completion *)

\* message_sent_handler(pdu)
message_sent_handler(pdu) ==
    /\ sent_messages' = message_sent_result(sent_messages, pdu)
    /\ UNCHANGED <<received_messages, delivery_reports_received, mo_received>>

\* mo_message_handler putting the event at the front of the log
mo_message_handler_prepending(pdu) ==
    IF handler_raises(pdu)
    THEN UNCHANGED tracker_vars
    ELSE LET msg == mo_message(pdu) IN
         /\ received_messages' = <<msg>> \o received_messages
         /\ delivery_reports_received' =
                IF msg.is_delivery_report
                THEN Append(delivery_reports_received, msg)
                ELSE delivery_reports_received
         /\ sent_messages' = check_message_correlation(sent_messages, msg)
         /\ mo_received' = (mo_received \/ ~msg.is_delivery_report)

\* mo_message_handler(pdu) for a deliver_sm PDU, lines 126-210
mo_message_handler(pdu) ==
    IF handler_raises(pdu)
    THEN UNCHANGED tracker_vars
    ELSE LET msg == mo_message(pdu) IN
         /\ received_messages' = Append(received_messages, msg)
         /\ delivery_reports_received' =
                IF msg.is_delivery_report
                THEN Append(delivery_reports_received, msg)
                ELSE delivery_reports_received
         /\ sent_messages' = check_message_correlation(sent_messages, msg)
         /\ mo_received' = (mo_received \/ ~msg.is_delivery_report)

Register ==
    /\ \E pdu \in SentPdus : message_sent_handler(pdu)
    /\ UNCHANGED <<main_vars, listener_vars, other_vars>>

Ingest ==
    /\ Len(received_messages) < MaxReceived
    /\ \E pdu \in DeliverPdus : mo_message_handler(pdu)
    /\ UNCHANGED <<main_vars, listener_vars, other_vars>>

Next == Register \/ Ingest

\* the tracker under any sequence of handler calls
Spec == Init /\ [][Next]_vars

-----------------------------------------------------------------------------
(* One send-receive run of main: the main thread (lines 393-436) beside the
   listener thread (lines 367-374), which runs the handlers statement by
   statement.  Time is counted in ticks of TICK_MS milliseconds. *)

MO_WAIT_SECONDS == 30     \* mo_received.wait(timeout=30)
DLR_WAIT_SECONDS == 15    \* while time.time() - start_time < 15
SLEEP_MS == 500           \* time.sleep(0.5)
TICK_MS == 500            \* one tick of clock

T1 == (MO_WAIT_SECONDS * 1000) \div TICK_MS
T2 == (DLR_WAIT_SECONDS * 1000) \div TICK_MS
SLEEP_TICKS == SLEEP_MS \div TICK_MS

\* len([msg for msg in received_messages if not msg.get('is_delivery_report', False)])
actual_mo_count ==
    Cardinality({i \in DOMAIN received_messages :
                    ~received_messages[i].is_delivery_report})

\* len(delivery_reports_received)
dlr_count == Len(delivery_reports_received)

\* line 414
completed_report ==
    [kind |-> "Test completed", mo |-> actual_mo_count, dlr |-> dlr_count,
     color |-> "GREEN"]

\* lines 419-421
dlr_timeout_report ==
    [kind |-> "Delivery report timeout", mo |-> actual_mo_count,
     dlr |-> dlr_count, color |-> "YELLOW"]

\* timeout_report with the two counts left out of the line
timeout_report_no_counts ==
    [kind |-> "Timeout reached", mo |-> 0, dlr |-> 0, color |-> "RED"]

\* lines 423-426
timeout_report ==
    [kind |-> "Timeout reached", mo |-> actual_mo_count, dlr |-> dlr_count,
     color |-> IF actual_mo_count = 0 THEN "RED" ELSE "WHITE"]

\* line 397: send_test_message; the peer will answer with a submit_sm_resp
SendTestMessage ==
    /\ opc = "start"
    /\ opc' = "wait_mo"
    /\ resp_pending' = TRUE
    /\ UNCHANGED <<tracker_vars, clock, start_time, wake, report, connected,
                   lpc, cur, inbound, other_vars>>

\* line 404 returns True, lines 406-409
WaitMoSignalled ==
    /\ opc = "wait_mo"
    /\ mo_received
    /\ opc' = "poll"
    /\ start_time' = clock
    /\ UNCHANGED <<tracker_vars, clock, wake, report, connected, listener_vars, other_vars>>

\* line 404 returns False after 30 s, lines 422-426
WaitMoTimeout ==
    /\ opc = "wait_mo"
    /\ ~mo_received
    /\ clock >= T1
    /\ report' = timeout_report
    /\ opc' = "shutdown"
    /\ UNCHANGED <<tracker_vars, clock, start_time, wake, connected, listener_vars, other_vars>>

\* lines 410-415: the loop condition holds and the predicate is true
PollConfirmed ==
    /\ opc = "poll"
    /\ clock - start_time < T2
    /\ has_received_all_confirmations
    /\ report' = completed_report
    /\ opc' = "shutdown"
    /\ UNCHANGED <<tracker_vars, clock, start_time, wake, connected, listener_vars, other_vars>>

\* lines 410-416: the loop condition holds, the predicate is false: sleep
PollSleep ==
    /\ opc = "poll"
    /\ clock - start_time < T2
    /\ ~has_received_all_confirmations
    /\ wake' = clock + SLEEP_TICKS
    /\ opc' = "sleep"
    /\ UNCHANGED <<tracker_vars, clock, start_time, report, connected, listener_vars, other_vars>>

\* line 416 returns
SleepReturns ==
    /\ opc = "sleep"
    /\ clock >= wake
    /\ opc' = "poll"
    /\ UNCHANGED <<tracker_vars, clock, start_time, wake, report, connected,
                   listener_vars, other_vars>>

\* lines 410, 417-421: the loop condition fails
PollTimeout ==
    /\ opc = "poll"
    /\ clock - start_time >= T2
    /\ report' = dlr_timeout_report
    /\ opc' = "shutdown"
    /\ UNCHANGED <<tracker_vars, clock, start_time, wake, connected, listener_vars, other_vars>>

\* lines 428-436: client.disconnect() closes the session
Disconnect ==
    /\ opc = "shutdown"
    /\ opc' = "done"
    /\ connected' = FALSE
    /\ UNCHANGED <<tracker_vars, clock, start_time, wake, report, listener_vars, other_vars>>

\* time passes while main waits; the steps between two waits and the
\* statements of a handler take no time
Tick ==
    /\ lpc \in {"idle", "terminated"}
    /\ \/ opc = "wait_mo" /\ clock < T1
       \/ opc = "sleep" /\ clock < wake
    /\ clock' = clock + 1
    /\ UNCHANGED <<tracker_vars, opc, start_time, wake, report, connected,
                   listener_vars, other_vars>>

\* client.listen() reads the submit_sm_resp and calls message_sent_handler
ListenSent ==
    /\ lpc = "idle"
    /\ connected
    /\ resp_pending
    /\ resp_pending' = FALSE
    /\ message_sent_handler(RunResp)
    /\ UNCHANGED <<main_vars, lpc, cur, inbound, other_vars>>

\* client.listen() reads a deliver_sm and calls mo_message_handler, which
\* runs to line 165; for an event that is no delivery report the next
\* statement that touches shared state is line 208
ListenDeliver ==
    /\ lpc = "idle"
    /\ connected
    /\ inbound < MaxInbound
    /\ \E pdu \in RunPdus :
        /\ ~handler_raises(pdu)
        /\ cur' = mo_message(pdu)
        /\ received_messages' = Append(received_messages, mo_message(pdu))
        /\ lpc' = IF mo_message(pdu).is_delivery_report
                  THEN "appended" ELSE "correlated"
    /\ inbound' = inbound + 1
    /\ UNCHANGED <<sent_messages, delivery_reports_received, mo_received,
                   main_vars, resp_pending, other_vars>>

\* the handler raises at line 150 or 151; nothing inside client.listen() or
\* the handler catches it, so it leaves listen() and reaches the
\* 'except Exception: pass' of listen_thread (lines 368-371): the thread ends
ListenRaises ==
    /\ lpc = "idle"
    /\ connected
    /\ inbound < MaxInbound
    /\ \E pdu \in RunPdus : handler_raises(pdu)
    /\ inbound' = inbound + 1
    /\ lpc' = "terminated"
    /\ UNCHANGED <<tracker_vars, main_vars, cur, resp_pending, other_vars>>

\* lines 168-169, for a delivery report
TrackDeliveryReport ==
    /\ lpc = "appended"
    /\ delivery_reports_received' = Append(delivery_reports_received, cur)
    /\ lpc' = "tracked"
    /\ UNCHANGED <<sent_messages, received_messages, mo_received, main_vars,
                   cur, resp_pending, inbound, other_vars>>

\* line 202 up to line 253: check_message_correlation finds its record and
\* marks it, or returns False
CorrelateMark ==
    /\ lpc = "tracked"
    /\ LET i == correlated_index(sent_messages, cur) IN
        IF i = 0
        THEN /\ lpc' = "correlated"
             /\ UNCHANGED sent_messages
        ELSE /\ lpc' = "marked"
             /\ sent_messages' = mark_dlr_received(sent_messages, i)
    /\ UNCHANGED <<received_messages, delivery_reports_received, mo_received,
                   main_vars, cur, resp_pending, inbound, other_vars>>

\* lines 256-260
CorrelateStatus ==
    /\ lpc = "marked"
    /\ sent_messages' = store_dlr_status(sent_messages,
                            correlated_index(sent_messages, cur), cur.text)
    /\ lpc' = "correlated"
    /\ UNCHANGED <<received_messages, delivery_reports_received, mo_received,
                   main_vars, cur, resp_pending, inbound, other_vars>>

\* SignalMo without the test of line 205: the event is set for every event
SignalMo_for_reports_too ==
    /\ lpc = "correlated"
    /\ mo_received' = TRUE
    /\ lpc' = "idle"
    /\ cur' = NoMsg
    /\ UNCHANGED <<sent_messages, received_messages, delivery_reports_received,
                   main_vars, resp_pending, inbound, other_vars>>

\* lines 204-210, and the handler returns
SignalMo ==
    /\ lpc = "correlated"
    /\ mo_received' = (mo_received \/ ~cur.is_delivery_report)
    /\ lpc' = "idle"
    /\ cur' = NoMsg
    /\ UNCHANGED <<sent_messages, received_messages, delivery_reports_received,
                   main_vars, resp_pending, inbound, other_vars>>

Main ==
    \/ SendTestMessage \/ WaitMoSignalled \/ WaitMoTimeout
    \/ PollConfirmed \/ PollSleep \/ SleepReturns \/ PollTimeout \/ Disconnect

Listener ==
    \/ ListenSent \/ ListenDeliver \/ ListenRaises
    \/ TrackDeliveryReport \/ CorrelateMark \/ CorrelateStatus \/ SignalMo

NextRun == Main \/ Listener \/ Tick

SpecRun == Init /\ [][NextRun]_vars

\* both threads get to run and time passes
FairRun == SpecRun /\ WF_vars(Main) /\ WF_vars(Listener) /\ WF_vars(Tick)

-----------------------------------------------------------------------------
(* One run of a tool, from the creation of the client to the exit of the
   process: main of tools/smpp_receiver.py (lines 343-453) and main of
   tools/smpp_sender.py (lines 156-273).  The calls into the session client
   and the SSL test either return or raise; KeyboardInterrupt is raised in
   the main thread while it waits. *)

\* receiver: --mode and --ssl; the sender has --ssl only and always sends
Args ==
    {[tool |-> "receiver", mode |-> m, ssl |-> b] :
        m \in {"send-receive", "receive-only"}, b \in BOOLEAN}
    \cup {[tool |-> "sender", mode |-> "send-receive", ssl |-> b] : b \in BOOLEAN}

\* what a step of a life cycle, of a codec or of a validator leaves alone
run_vars == <<tracker_vars, main_vars, listener_vars, handler_vars, pair_vars,
              auto_vars>>

InitLife ==
    /\ RunIdle /\ CodecIdle /\ AddrIdle
    /\ tool_args \in Args
    /\ phase = "create"
    /\ client = FALSE
    /\ teardown = <<>>
    /\ logged = <<>>
    /\ exit_status = RUNNING

\* a printed line, and for 'Error: {e}' the call that raised e
Line(text, what) == [line |-> text, about |-> what]

\* one teardown call on the session and whether it returned
Call(name, ok) == [call |-> name, ok |-> ok]

\* an exception that is no SystemExit and no KeyboardInterrupt leaves the try
\* block: the handler at receiver 445-446 / sender 265-266 prints it
Raise(what) ==
    /\ logged' = Append(logged, Line("Error", what))
    /\ phase' = "except_exception"

\* receiver 347-348 with test_ssl_connection (smpp_common 253-277), sender
\* 160-185: ssl.SSLError ends the process by sys.exit(1), which no handler
\* of main catches; any other exception is printed and raised again
SslTest ==
    /\ phase = "create"
    /\ tool_args.ssl
    /\ \E outcome \in {"ok", "SSLError", "Exception"} :
        CASE outcome = "ok" ->
                /\ phase' = "client"
                /\ UNCHANGED <<logged, exit_status>>
          [] outcome = "SSLError" ->
                /\ logged' = Append(logged, Line("SSL/TLS connection failed", ""))
                /\ exit_status' = 1
                /\ phase' = "exited"
          [] outcome = "Exception" ->
                /\ logged' = logged \o <<Line("Connection test failed", ""),
                                         Line("Error", "ssl_test")>>
                /\ phase' = "except_exception"
                /\ UNCHANGED exit_status
    /\ UNCHANGED <<tool_args, client, teardown, run_vars, codec_vars, addr_vars>>

\* receiver 349/351, sender 176/187
CreateClient ==
    /\ \/ phase = "create" /\ ~tool_args.ssl
       \/ phase = "client"
    /\ client' = TRUE
    /\ phase' = "connect"
    /\ UNCHANGED <<tool_args, teardown, logged, exit_status, run_vars,
                   codec_vars, addr_vars>>

\* receiver 359, sender 197: client.connect()
Connect ==
    /\ phase = "connect"
    /\ \E ok \in BOOLEAN :
        IF ok THEN phase' = "bind" /\ UNCHANGED logged
        ELSE Raise("connect")
    /\ UNCHANGED <<tool_args, client, teardown, exit_status, run_vars,
                   codec_vars, addr_vars>>

\* receiver 363, sender 201: client.bind_transceiver(...)
Bind ==
    /\ phase = "bind"
    /\ \E ok \in BOOLEAN :
        IF ok
        THEN /\ phase' = IF tool_args.mode = "receive-only" THEN "wait" ELSE "send"
             /\ UNCHANGED logged
        ELSE Raise("bind")
    /\ UNCHANGED <<tool_args, client, teardown, exit_status, run_vars,
                   codec_vars, addr_vars>>

\* receiver 397 with send_test_message (286-303), sender 209-219:
\* smpplib.gsm.gsm_encode(message) may raise, client.send_message may raise
SendMessage ==
    /\ phase = "send"
    /\ \E outcome \in {"ok", "encode", "send"} :
        IF outcome = "ok" THEN phase' = "wait" /\ UNCHANGED logged
        ELSE Raise(outcome)
    /\ UNCHANGED <<tool_args, client, teardown, exit_status, run_vars,
                   codec_vars, addr_vars>>

\* WaitEnds with the timeouts of the receiver's two waits left out
WaitEnds_sender_only ==
    /\ phase = "wait"
    /\ tool_args.tool = "sender"
    /\ phase' = "shutdown"
    /\ UNCHANGED <<tool_args, client, teardown, logged, exit_status, run_vars,
                   codec_vars, addr_vars>>

\* receiver 404-426, sender 240-243: the waits end by themselves, signalled
\* or timed out; the loop of receiver 383-387 never does
WaitEnds ==
    /\ phase = "wait"
    /\ tool_args.mode # "receive-only"
    /\ phase' = "shutdown"
    /\ UNCHANGED <<tool_args, client, teardown, logged, exit_status, run_vars,
                   codec_vars, addr_vars>>

\* KeyboardInterrupt during a wait: in receive-only mode the handler of
\* receiver 388-391 catches it and main goes on at line 428; in the other
\* waits it reaches the handler of receiver 438-439 / sender 258-259
Interrupt ==
    /\ phase = "wait"
    /\ logged' = Append(logged, Line("Stopped by user", ""))
    /\ phase' = IF tool_args.tool = "receiver" /\ tool_args.mode = "receive-only"
                THEN "shutdown" ELSE "except_interrupt"
    /\ UNCHANGED <<tool_args, client, teardown, exit_status, run_vars,
                   codec_vars, addr_vars>>

\* receiver 440-444, sender 260-264: unbind then disconnect inside one try
\* whose handler is 'except Exception: pass'
InterruptTeardown ==
    /\ phase = "except_interrupt"
    /\ \E unbind_ok \in BOOLEAN, disconnect_ok \in BOOLEAN :
        teardown' = IF unbind_ok
                    THEN teardown \o <<Call("unbind", TRUE),
                                       Call("disconnect", disconnect_ok)>>
                    ELSE Append(teardown, Call("unbind", FALSE))
    /\ phase' = "done"
    /\ UNCHANGED <<tool_args, client, logged, exit_status, run_vars,
                   codec_vars, addr_vars>>

\* FailureTeardown without the call of client.disconnect()
FailureTeardown_without_disconnect ==
    /\ phase = "except_exception"
    /\ exit_status' = 1
    /\ phase' = "exited"
    /\ UNCHANGED <<tool_args, client, teardown, logged, run_vars, codec_vars,
                   addr_vars>>

\* receiver 447-451, sender 267-271: disconnect inside a try whose handler is
\* 'except Exception: pass', then sys.exit(1); while the name client is
\* unbound the call raises UnboundLocalError, which that handler swallows
FailureTeardown ==
    /\ phase = "except_exception"
    /\ IF client
       THEN \E ok \in BOOLEAN : teardown' = Append(teardown, Call("disconnect", ok))
       ELSE UNCHANGED teardown
    /\ exit_status' = 1
    /\ phase' = "exited"
    /\ UNCHANGED <<tool_args, client, logged, run_vars, codec_vars, addr_vars>>

\* receiver 428-436, sender 245-256: disconnect only, its failure printed
GracefulShutdown ==
    /\ phase = "shutdown"
    /\ \E ok \in BOOLEAN :
        /\ teardown' = Append(teardown, Call("disconnect", ok))
        /\ logged' = Append(logged, Line(IF ok THEN "Disconnected"
                                         ELSE "Disconnect error", ""))
    /\ phase' = "done"
    /\ UNCHANGED <<tool_args, client, exit_status, run_vars, codec_vars,
                   addr_vars>>

\* receiver 453, sender 273: main returns and the process exits with 0
Done ==
    /\ phase = "done"
    /\ logged' = Append(logged, Line("Done", ""))
    /\ exit_status' = 0
    /\ phase' = "exited"
    /\ UNCHANGED <<tool_args, client, teardown, run_vars, codec_vars, addr_vars>>

NextLife ==
    \/ SslTest \/ CreateClient \/ Connect \/ Bind \/ SendMessage \/ WaitEnds
    \/ Interrupt \/ InterruptTeardown \/ FailureTeardown \/ GracefulShutdown
    \/ Done

SpecLife == InitLife /\ [][NextLife]_vars

\* every step of main but the user's interrupt
LifeProgress ==
    \/ SslTest \/ CreateClient \/ Connect \/ Bind \/ SendMessage \/ WaitEnds
    \/ InterruptTeardown \/ FailureTeardown \/ GracefulShutdown \/ Done

\* main gets to run; the user may or may not interrupt
FairLife == SpecLife /\ WF_vars(LifeProgress)

-----------------------------------------------------------------------------
(* The encoders that encode_sms_message dispatches to *)

Raises(exception) == [kind |-> exception, val |-> <<>>]

\* GSM_CHARACTER_TABLE.index(char): 0-based position of the first occurrence
gsm_index(char) ==
    Min({i \in 1..Len(GSM_CHARACTER_TABLE) : GSM_CHARACTER_TABLE[i] = char}) - 1

InGsmTable(char) ==
    \E i \in 1..Len(GSM_CHARACTER_TABLE) : GSM_CHARACTER_TABLE[i] = char

\* smpplib.gsm.gsm_encode(plaintext): one byte per character, the index of
\* the character in the table; EncodeError for a character not in it
gsm_encode(plaintext) ==
    IF \A i \in 1..Len(plaintext) : InGsmTable(plaintext[i])
    THEN Bytes([i \in 1..Len(plaintext) |-> gsm_index(plaintext[i])])
    ELSE Raises("EncodeError")

\* str.encode('ascii') with the default errors='strict'
encode_ascii_strict(s) ==
    IF \A i \in 1..Len(s) : s[i] < 128
    THEN Bytes(s)
    ELSE Raises("UnicodeEncodeError")

\* str.encode('ascii', errors='replace')
encode_ascii(s) ==
    Bytes([i \in 1..Len(s) |-> IF s[i] < 128 THEN s[i] ELSE QUESTION_MARK])

\* str.encode('iso-8859-1', errors='replace')
encode_latin1(s) ==
    Bytes([i \in 1..Len(s) |-> IF s[i] < 256 THEN s[i] ELSE QUESTION_MARK])

IsSurrogate(c) == c \in 55296..57343

\* the UTF-8 bytes of one code point that is no surrogate
Utf8Bytes(c) ==
    IF c < 128 THEN <<c>>
    ELSE IF c < 2048 THEN <<192 + (c \div 64), 128 + (c % 64)>>
    ELSE IF c < 65536
         THEN <<224 + (c \div 4096), 128 + ((c \div 64) % 64), 128 + (c % 64)>>
    ELSE <<240 + (c \div 262144), 128 + ((c \div 4096) % 64),
           128 + ((c \div 64) % 64), 128 + (c % 64)>>

\* the UTF-16BE bytes of one code point that is no surrogate
Utf16beBytes(c) ==
    IF c < 65536 THEN <<c \div 256, c % 256>>
    ELSE LET v == c - 65536
             hi == 55296 + (v \div 1024)
             lo == 56320 + (v % 1024)
         IN <<hi \div 256, hi % 256, lo \div 256, lo % 256>>

RECURSIVE utf8_bytes_from(_, _)
utf8_bytes_from(s, i) ==
    IF i > Len(s) THEN <<>> ELSE Utf8Bytes(s[i]) \o utf8_bytes_from(s, i + 1)

RECURSIVE utf16be_bytes_from(_, _)
utf16be_bytes_from(s, i) ==
    IF i > Len(s) THEN <<>> ELSE Utf16beBytes(s[i]) \o utf16be_bytes_from(s, i + 1)

\* str.encode('utf-8'): a lone surrogate raises
encode_utf8(s) ==
    IF \E i \in 1..Len(s) : IsSurrogate(s[i]) THEN Raises("UnicodeEncodeError")
    ELSE Bytes(utf8_bytes_from(s, 1))

\* str.encode('utf-16be'): a lone surrogate raises
encode_utf16be(s) ==
    IF \E i \in 1..Len(s) : IsSurrogate(s[i]) THEN Raises("UnicodeEncodeError")
    ELSE Bytes(utf16be_bytes_from(s, 1))

\* encode_sms_message without the branch for 0x08
encode_sms_message_no_ucs2(message_text, data_coding) ==
    IF data_coding = 0 \/ (data_coding \div 16) % 16 = 15 THEN gsm_encode(message_text)
    ELSE IF data_coding = 1 THEN encode_ascii(message_text)
    ELSE IF data_coding = 2 THEN encode_utf8(message_text)
    ELSE IF data_coding = 3 THEN encode_latin1(message_text)
    ELSE gsm_encode(message_text)

\* encode_sms_message(message_text, data_coding)
encode_sms_message(message_text, data_coding) ==
    IF data_coding = 0 \/ (data_coding \div 16) % 16 = 15 THEN gsm_encode(message_text)
    ELSE IF data_coding = 1 THEN encode_ascii(message_text)
    ELSE IF data_coding = 2 THEN encode_utf8(message_text)
    ELSE IF data_coding = 3 THEN encode_latin1(message_text)
    ELSE IF data_coding = 8 THEN encode_utf16be(message_text)
    ELSE gsm_encode(message_text)

-----------------------------------------------------------------------------
(* The codecs applied to one input: a text that is encoded and the result
   decoded again with the same selector, or a byte string that is decoded *)

\* ESC, 'A', '{', c-cedilla, the euro sign, U+1F600
TextChars == {27, 65, 123, 231, 8364, 128512}

\* ESC, 'A', 'e', the two bytes of e-acute in UTF-8, 0xD8, 0xFF
ByteVals == {27, 65, 101, 195, 169, 216, 255}

SeqsUpTo(S, n) == UNION {[1..k -> S] : k \in 0..n}

Texts == SeqsUpTo(TextChars, MaxLen)
ByteStrings == SeqsUpTo(ByteVals, MaxLen)
DataCodings == 0..255

InitCodec ==
    /\ RunIdle /\ LifeIdle /\ AddrIdle
    /\ in_coding \in DataCodings
    /\ \/ in_text \in {Str(s) : s \in Texts} /\ in_bytes = Absent
       \/ in_text = Absent /\ in_bytes \in {Bytes(b) : b \in ByteStrings}
    /\ out_encoded = Absent
    /\ out_decoded = Absent

\* encode_sms_message(in_text, in_coding)
Encode ==
    /\ in_text # Absent
    /\ out_encoded = Absent
    /\ out_encoded' = encode_sms_message(in_text.val, in_coding)
    /\ UNCHANGED <<in_text, in_bytes, in_coding, out_decoded, run_vars,
                   life_vars, addr_vars>>

\* decode_sms_message(out_encoded, in_coding), when the encoding returned
DecodeEncoded ==
    /\ out_encoded.kind = "bytes"
    /\ out_decoded = Absent
    /\ out_decoded' = Str(decode_sms_message(out_encoded, in_coding))
    /\ UNCHANGED <<in_text, in_bytes, in_coding, out_encoded, run_vars,
                   life_vars, addr_vars>>

\* decode_sms_message(in_bytes, in_coding)
Decode ==
    /\ in_bytes # Absent
    /\ out_decoded = Absent
    /\ out_decoded' = Str(decode_sms_message(in_bytes, in_coding))
    /\ UNCHANGED <<in_text, in_bytes, in_coding, out_encoded, run_vars,
                   life_vars, addr_vars>>

NextCodec == Encode \/ DecodeEncoded \/ Decode

SpecCodec == InitCodec /\ [][NextCodec]_vars

-----------------------------------------------------------------------------
(* The address validators of common/smpp_common.py *)

NEWLINE == 10
SPACE == 32

\* \d of a str pattern: the decimal digits of Unicode; of those beyond ASCII
\* the Arabic-Indic digits stand for all
UnicodeDigits == 48..57 \cup 1632..1641

\* what str.strip() removes; of the whitespace beyond ASCII, U+0085 and
\* U+00A0 stand for all
Whitespace == {9, 10, 11, 12, 13, 28, 29, 30, 31, 32, 133, 160}

\* the class of allowed_pattern (line 195):
\* a-z A-Z 0-9, the ten Nordic letters, space . _ & -
AllowedChars ==
    (97..122) \cup (65..90) \cup (48..57)
    \cup {229, 228, 246, 197, 196, 214, 230, 248, 198, 216}
    \cup {32, 46, 95, 38, 45}

\* where '$' matches when the pattern has consumed the first n characters:
\* at the end of the string, or before a newline that ends it
AtEnd(s, n) == n = Len(s) \/ (n = Len(s) - 1 /\ s[Len(s)] = NEWLINE)

\* re.match(r'^[1-9]\d{6,14}$', address)
MatchesE164(s) ==
    \E n \in 7..15 :
        /\ n <= Len(s)
        /\ AtEnd(s, n)
        /\ s[1] \in 49..57
        /\ \A i \in 2..n : s[i] \in UnicodeDigits

\* re.match(allowed_pattern, address)
MatchesAllowed(s) ==
    \E n \in 1..Len(s) :
        /\ AtEnd(s, n)
        /\ \A i \in 1..n : s[i] \in AllowedChars

\* address != address.strip()
StripChanges(s) ==
    s # <<>> /\ (s[1] \in Whitespace \/ s[Len(s)] \in Whitespace)

\* is_valid_e164_address(address)
is_valid_e164_address(s) ==
    IF s = <<>> THEN FALSE ELSE MatchesE164(s)

\* is_valid_alphanumeric_address without the length test of lines 191-192
is_valid_alphanumeric_address_any_length(s) ==
    IF s = <<>> THEN FALSE
    ELSE IF ~MatchesAllowed(s) THEN FALSE
    ELSE IF StripChanges(s) THEN FALSE
    ELSE TRUE

\* is_valid_alphanumeric_address(address)
is_valid_alphanumeric_address(s) ==
    IF s = <<>> THEN FALSE
    ELSE IF Len(s) > 11 THEN FALSE
    ELSE IF ~MatchesAllowed(s) THEN FALSE
    ELSE IF StripChanges(s) THEN FALSE
    ELSE TRUE

\* validate_e164_address(address): returns, or raises ValueError
validate_e164_address(s) ==
    IF s = <<>> THEN "ValueError"
    ELSE IF ~MatchesE164(s) THEN "ValueError"
    ELSE "ok"

\* validate_source_address(address): returns, or raises ValueError
validate_source_address(s) ==
    IF s = <<>> THEN "ValueError"
    ELSE IF is_valid_e164_address(s) THEN "ok"
    ELSE IF is_valid_alphanumeric_address(s) THEN "ok"
    ELSE "ValueError"

\* get_source_address_format with the two tests in the other order
get_source_address_format_alphanumeric_first(s) ==
    IF is_valid_alphanumeric_address(s) THEN "alphanumeric"
    ELSE IF is_valid_e164_address(s) THEN "e164"
    ELSE "ValueError"

\* get_source_address_format(address)
get_source_address_format(s) ==
    IF is_valid_e164_address(s) THEN "e164"
    ELSE IF is_valid_alphanumeric_address(s) THEN "alphanumeric"
    ELSE "ValueError"

\* get_source_ton_npi(address): "ton,npi", or raises ValueError
get_source_ton_npi(s) ==
    IF validate_source_address(s) = "ValueError" THEN "ValueError"
    ELSE LET format_type == get_source_address_format(s) IN
         IF format_type = "e164" THEN "1,1"
         ELSE IF format_type = "alphanumeric" THEN "5,0"
         ELSE "ValueError"

\* '0', '1', 'A', space, '+'
FirstChars == {48, 49, 65, 32, 43}
\* '5', 'b', '.', an Arabic-Indic digit
FillChars == {53, 98, 46, 1637}
\* nothing, '7', space, newline
Tails == {<<>>, <<55>>, <<SPACE>>, <<NEWLINE>>}

\* the empty string, and a first character, a run of one character and a tail
Addresses ==
    {<<>>} \cup
    {<<f>> \o [i \in 1..k |-> m] \o t :
        f \in FirstChars, m \in FillChars, k \in 0..(MaxAddrLen - 2), t \in Tails}

Answer(call, result) == [kind |-> call, val |-> result]

InitAddr ==
    /\ RunIdle /\ LifeIdle /\ CodecIdle
    /\ in_address \in Addresses
    /\ verdict = Absent

ValidateSource ==
    /\ verdict.kind = "absent"
    /\ verdict' = Answer("validate_source_address", validate_source_address(in_address))
    /\ UNCHANGED <<in_address, run_vars, life_vars, codec_vars>>

ValidateE164 ==
    /\ verdict.kind = "absent"
    /\ verdict' = Answer("validate_e164_address", validate_e164_address(in_address))
    /\ UNCHANGED <<in_address, run_vars, life_vars, codec_vars>>

GetFormat ==
    /\ verdict.kind = "absent"
    /\ verdict' = Answer("get_source_address_format",
                         get_source_address_format(in_address))
    /\ UNCHANGED <<in_address, run_vars, life_vars, codec_vars>>

GetTonNpi ==
    /\ verdict.kind = "absent"
    /\ verdict' = Answer("get_source_ton_npi", get_source_ton_npi(in_address))
    /\ UNCHANGED <<in_address, run_vars, life_vars, codec_vars>>

NextAddr == ValidateSource \/ ValidateE164 \/ GetFormat \/ GetTonNpi

SpecAddr == InitAddr /\ [][NextAddr]_vars

-----------------------------------------------------------------------------
(* The two handlers called with any PDU, the PDU of the call kept *)

\* a PDU with the optional parameter receipted_message_id set
WithReceipt(pdu, id) ==
    [k \in DOMAIN pdu \cup {"receipted_message_id"} |->
        IF k = "receipted_message_id" THEN id ELSE pdu[k]]

\* hasattr(pdu, 'receipted_message_id') and pdu.receipted_message_id
HasReceipt(pdu) ==
    /\ "receipted_message_id" \in DOMAIN pdu
    /\ pdu.receipted_message_id.val # <<>>

\* PDUs that are no deliver_sm
ReceiptOnly ==
    [command |-> "data_sm", sequence |-> 1,
     receipted_message_id |-> Bytes(<<49>>)]
ShortMessageOnly ==
    [command |-> "data_sm", sequence |-> 1,
     short_message |-> Bytes(P_dlr1_DELIVRD)]
EnquireLink == [command |-> "enquire_link", sequence |-> 1]

\* what message_received_handler is called with
InboundPdus ==
    {DeliverSm(P_hi, A_46),
     WithReceipt(DeliverSm(P_hi, A_46), Bytes(<<49>>)),
     DeliverSm(P_dlr1_DELIVRD, A_46),
     WithReceipt(DeliverSm(P_dlr1_UNDELIV, A_46), Bytes(<<49>>)),
     DeliverSm(P_hi, A_bad),
     ReceiptOnly, ShortMessageOnly, EnquireLink}

\* what message_sent_handler is called with; the second has no sequence
ConfirmationPdus ==
    {SubmitSmResp(1, Bytes(<<49>>)),
     [command |-> "submit_sm_resp", message_id |-> Bytes(<<49>>)]}

\* mo_message_handler(pdu), lines 111-227: the branches that are not for a
\* deliver_sm (lines 212-227) only print
mo_message_handler_any(pdu) ==
    IF "command" \in DOMAIN pdu /\ pdu.command = "deliver_sm"
    THEN mo_message_handler(pdu)
    ELSE UNCHANGED tracker_vars

HandleSent ==
    /\ \E pdu \in ConfirmationPdus :
        /\ message_sent_handler(pdu)
        /\ in_pdu' = pdu
    /\ UNCHANGED <<main_vars, listener_vars, life_vars, codec_vars, addr_vars,
                   pair_vars, auto_vars>>

HandleReceived ==
    /\ Len(received_messages) < MaxReceived
    /\ \E pdu \in InboundPdus :
        /\ mo_message_handler_any(pdu)
        /\ in_pdu' = pdu
    /\ UNCHANGED <<main_vars, listener_vars, life_vars, codec_vars, addr_vars,
                   pair_vars, auto_vars>>

NextHandler == HandleSent \/ HandleReceived

SpecHandler == Init /\ [][NextHandler]_vars

-----------------------------------------------------------------------------
(* Two send-receive runs of main with the same two instants of arrival: in
   the first the reply arrives at the earlier instant and the delivery report
   at the later one, in the second the other way round.  main is the main
   thread of the run above; a handler call takes no time and main is
   scheduled without delay. *)

\* 1 s, 10 s, 20 s and 35 s after the start, in ticks
ArrivalInstants ==
    {(1000 \div TICK_MS), (10000 \div TICK_MS), (20000 \div TICK_MS),
     (35000 \div TICK_MS)}

InstantPairs ==
    {<<a, b>> : a \in ArrivalInstants, b \in ArrivalInstants} \ 
    {<<a, b>> \in ArrivalInstants \X ArrivalInstants : a >= b}

\* the reply and the delivery report of the one sent message
ReplyPdu == DeliverSm(P_hi, A_46)
ReportPdu == DeliverSm(P_dlr1_DELIVRD, A_46)

\* the k-th PDU to arrive in a run of the given order
ArrivalPdu(ord, k) ==
    IF (ord = "reply_first") = (k = 1) THEN ReplyPdu ELSE ReportPdu

\* a PDU is due at this instant
ArrivalDue ==
    /\ connected
    /\ inbound < 2
    /\ clock = instants[inbound + 1]

InitPair ==
    /\ ThreadsIdle /\ HandlerIdle /\ AutoIdle
    /\ LifeIdle /\ CodecIdle /\ AddrIdle
    /\ order = "reply_first"
    /\ instants \in InstantPairs
    /\ first_outcome = "none"

\* client.listen() reads the deliver_sm that is due and calls
\* mo_message_handler, which runs to its end
Arrive ==
    /\ lpc = "idle"
    /\ ~resp_pending
    /\ ArrivalDue
    /\ mo_message_handler(ArrivalPdu(order, inbound + 1))
    /\ inbound' = inbound + 1
    /\ UNCHANGED <<main_vars, lpc, cur, resp_pending, other_vars>>

\* time passes while main waits (line 404 blocks while the event is unset,
\* line 416 sleeps) and nothing is due
TickPair ==
    /\ ~resp_pending
    /\ ~ArrivalDue
    /\ \/ opc = "wait_mo" /\ ~mo_received /\ clock < T1
       \/ opc = "sleep" /\ clock < wake
    /\ clock' = clock + 1
    /\ UNCHANGED <<tracker_vars, opc, start_time, wake, report, connected,
                   listener_vars, other_vars>>

\* the run is over; the tool is run again, the two arrivals exchanged
RunExchanged ==
    /\ opc = "done"
    /\ order = "reply_first"
    /\ order' = "report_first"
    /\ first_outcome' = report.kind
    /\ sent_messages' = <<>>
    /\ received_messages' = <<>>
    /\ delivery_reports_received' = <<>>
    /\ mo_received' = FALSE
    /\ clock' = 0
    /\ opc' = "start"
    /\ start_time' = 0
    /\ wake' = 0
    /\ report' = NoReport
    /\ lpc' = "idle"
    /\ cur' = NoMsg
    /\ resp_pending' = FALSE
    /\ inbound' = 0
    /\ connected' = TRUE
    /\ UNCHANGED <<instants, life_vars, codec_vars, addr_vars, handler_vars,
                   auto_vars>>

NextPair == Main \/ ListenSent \/ Arrive \/ TickPair \/ RunExchanged

SpecPair == InitPair /\ [][NextPair]_vars

-----------------------------------------------------------------------------
(* The send of a send-receive run with the text of the test message given:
   send_test_message (lines 286-303) called at line 397, the failure handler
   of main (lines 445-451), and the listener reading the response *)

InitSend ==
    /\ ThreadsIdle /\ HandlerIdle /\ PairIdle /\ AutoIdle
    /\ LifeIdle /\ AddrIdle
    /\ in_text \in {Str(s) : s \in Texts}
    /\ in_bytes = Absent
    /\ in_coding = 0
    /\ out_encoded = Absent
    /\ out_decoded = Absent

\* SendTest calling client.send_message whatever gsm_encode did
SendTest_ignoring_error ==
    /\ opc = "start"
    /\ out_encoded' = gsm_encode(in_text.val)
    /\ opc' = "wait_mo"
    /\ resp_pending' = TRUE
    /\ UNCHANGED <<tracker_vars, clock, start_time, wake, report, connected,
                   lpc, cur, inbound, in_text, in_bytes, in_coding,
                   out_decoded, life_vars, addr_vars, handler_vars, pair_vars,
                   auto_vars>>

\* lines 290-302: the argument smpplib.gsm.gsm_encode(message) is evaluated
\* before client.send_message is called; when it raises, the exception
\* leaves send_test_message and reaches line 445
SendTest ==
    /\ opc = "start"
    /\ out_encoded' = gsm_encode(in_text.val)
    /\ IF gsm_encode(in_text.val).kind = "bytes"
       THEN /\ opc' = "wait_mo"
            /\ resp_pending' = TRUE
       ELSE /\ opc' = "failed"
            /\ UNCHANGED resp_pending
    /\ UNCHANGED <<tracker_vars, clock, start_time, wake, report, connected,
                   lpc, cur, inbound, in_text, in_bytes, in_coding,
                   out_decoded, life_vars, addr_vars, handler_vars, pair_vars,
                   auto_vars>>

\* lines 445-451: the error is printed, client.disconnect() is called and
\* the process exits
FailedSendExit ==
    /\ opc = "failed"
    /\ connected' = FALSE
    /\ opc' = "done"
    /\ UNCHANGED <<tracker_vars, clock, start_time, wake, report,
                   listener_vars, other_vars>>

NextSend == SendTest \/ ListenSent \/ FailedSendExit

SpecSend == InitSend /\ [][NextSend]_vars

-----------------------------------------------------------------------------
(* The automatic choice of an encoding: auto_select_encoding of
   tools/sms_encoder.py and auto_detect_encoding of tools/sms_decoder.py,
   each with the branch of main that calls it *)

\* ENCODING_TO_DATA_CODING[encoding_name] (sms_encoder.py) and
\* encoding_to_data_coding(encoding) (sms_decoder.py)
ENCODING_TO_DATA_CODING(encoding_name) ==
    CASE encoding_name = "gsm" -> 0
      [] encoding_name = "ascii" -> 1
      [] encoding_name = "utf8" -> 2
      [] encoding_name = "latin1" -> 3
      [] encoding_name = "ucs2" -> 8
      [] OTHER -> 0

\* the name position of a returned pair when it holds None
NoEncoding == "None"

\* try_encode_with_encoding(text, encoding_name): the bytes and True, or
\* None and False when the encoding raised
try_encode_with_encoding(text, encoding_name) ==
    LET encoded_bytes ==
            encode_sms_message(text, ENCODING_TO_DATA_CODING(encoding_name))
    IN IF encoded_bytes.kind = "bytes"
       THEN [data |-> encoded_bytes, success |-> TRUE]
       ELSE [data |-> None, success |-> FALSE]

\* encodings_to_try of auto_select_encoding
ENCODINGS_TO_TRY_ENCODE == <<"gsm", "ascii", "latin1", "utf8", "ucs2">>

\* auto_select_encoding(text): the first encoding of the list that succeeds,
\* 'utf8' with text.encode('utf-8') when none does
auto_select_encoding(text) ==
    LET tries == ENCODINGS_TO_TRY_ENCODE
        good == {i \in DOMAIN tries : try_encode_with_encoding(text, tries[i]).success}
    IN IF good # {}
       THEN [encoding |-> tries[Min(good)],
             data |-> try_encode_with_encoding(text, tries[Min(good)]).data]
       ELSE [encoding |-> "utf8", data |-> encode_utf8(text)]

\* try_decode_with_encoding(raw_bytes, encoding_name): decode_sms_message
\* does not raise, so the except branch is dead
try_decode_with_encoding(raw_bytes, encoding_name) ==
    [data |-> Str(decode_sms_message(Bytes(raw_bytes),
                                     ENCODING_TO_DATA_CODING(encoding_name))),
     success |-> TRUE]

\* the results list of auto_detect_encoding for a list of encodings: the
\* encodings whose decoding succeeded and gave a text that is not empty
detect_results(raw_bytes, tries) ==
    SelectSeq(tries,
        LAMBDA e : /\ try_decode_with_encoding(raw_bytes, e).success
                   /\ try_decode_with_encoding(raw_bytes, e).data.val # <<>>)

\* auto_detect_encoding trying utf8 before gsm
auto_detect_encoding_utf8_first(raw_bytes) ==
    LET results == detect_results(raw_bytes,
                        <<"utf8", "gsm", "ascii", "latin1", "ucs2">>)
    IN IF results = <<>>
       THEN [encoding |-> NoEncoding, data |-> None]
       ELSE [encoding |-> results[1],
             data |-> try_decode_with_encoding(raw_bytes, results[1]).data]

\* auto_detect_encoding(raw_bytes)
auto_detect_encoding(raw_bytes) ==
    LET results == detect_results(raw_bytes,
                        <<"gsm", "utf8", "ascii", "latin1", "ucs2">>)
    IN IF results = <<>>
       THEN [encoding |-> NoEncoding, data |-> None]
       ELSE [encoding |-> results[1],
             data |-> try_decode_with_encoding(raw_bytes, results[1]).data]

Chosen(call, pair) ==
    [kind |-> call, encoding |-> pair.encoding, data |-> pair.data]

InitAuto ==
    /\ ThreadsIdle /\ HandlerIdle /\ PairIdle
    /\ LifeIdle /\ AddrIdle
    /\ \/ in_text \in {Str(s) : s \in Texts} /\ in_bytes = Absent
       \/ in_text = Absent /\ in_bytes \in {Bytes(b) : b \in ByteStrings}
    /\ in_coding = 0
    /\ out_encoded = Absent
    /\ out_decoded = Absent
    /\ auto_result = Absent

\* sms_encoder.py main, lines 204-209: no --encoding given; the result is
\* displayed and main returns
AutoSelect ==
    /\ in_text # Absent
    /\ auto_result = Absent
    /\ auto_result' = Chosen("auto_select_encoding",
                             auto_select_encoding(in_text.val))
    /\ exit_status' = 0
    /\ UNCHANGED <<tool_args, phase, client, teardown, logged, codec_vars,
                   addr_vars, tracker_vars, main_vars, listener_vars,
                   handler_vars, pair_vars>>

\* sms_decoder.py main, lines 252-260: no --encoding given; without an
\* encoding the failure is printed and the process exits with 1
AutoDetect ==
    /\ in_bytes # Absent
    /\ auto_result = Absent
    /\ LET pair == auto_detect_encoding(in_bytes.val) IN
        /\ auto_result' = Chosen("auto_detect_encoding", pair)
        /\ IF pair.encoding = NoEncoding
           THEN /\ logged' = Append(logged, Line("Could not decode message", ""))
                /\ exit_status' = 1
           ELSE /\ UNCHANGED logged
                /\ exit_status' = 0
    /\ UNCHANGED <<tool_args, phase, client, teardown, codec_vars, addr_vars,
                   tracker_vars, main_vars, listener_vars, handler_vars,
                   pair_vars>>

NextAuto == AutoSelect \/ AutoDetect

SpecAuto == InitAuto /\ [][NextAuto]_vars

-----------------------------------------------------------------------------
(* Vocabulary of the claims about the tracker *)

\* the received log holds an event that is not a delivery report
LoggedReply ==
    \E i \in DOMAIN received_messages : ~received_messages[i].is_delivery_report

\* record i of the registry has its delivery report marked received
DlrReceived(sent, i) ==
    "dlr_received" \in DOMAIN sent[i].info /\ sent[i].info.dlr_received

\* record i is in state DlrReceived(status)
DlrReceivedWith(sent, i, status) ==
    /\ DlrReceived(sent, i)
    /\ "dlr_status" \in DOMAIN sent[i].info
    /\ sent[i].info.dlr_status = status

EveryRecordDlrReceived ==
    \A i \in DOMAIN sent_messages : DlrReceived(sent_messages, i)

SomeRecordFailed ==
    \E i \in DOMAIN sent_messages :
        \E st \in {UNDELIV, REJECTD, EXPIRED, UNKNOWN} :
            DlrReceivedWith(sent_messages, i, st)

\* this step ingested one deliver event
IngestStep == Len(received_messages') = Len(received_messages) + 1

\* the event this step ingested
Ingested == received_messages'[Len(received_messages')]

HasBothMarkers(text) == Contains(text, S_id) /\ Contains(text, S_stat)

\* the registered records whose id in string form is id
RecordsWithId(sent, id) == {i \in DOMAIN sent : sent_id_str(sent[i].info) = id}

-----------------------------------------------------------------------------
(* C1 *)

\* C1 as stated: the completion predicate is true exactly when (a reply is
\* logged and every sent record has its delivery report) or some record has
\* a failure status, for every registry size, the empty registry included.
C1_AsStated ==
    has_received_all_confirmations
        <=> ((LoggedReply /\ EveryRecordDlrReceived) \/ SomeRecordFailed)

\* C1 amended: the completion predicate is true exactly when (the registry is
\* not empty, a reply is logged and every sent record has its delivery
\* report) or some record has a failure status; with no sent record it is
\* false.
C1_CompletionPredicate ==
    has_received_all_confirmations
        <=> ((sent_messages # <<>> /\ LoggedReply /\ EveryRecordDlrReceived)
                \/ SomeRecordFailed)

\* a registered record confirmed by a successful report, and a reply logged
C1_Witness ==
    /\ sent_messages # <<>>
    /\ LoggedReply
    /\ EveryRecordDlrReceived
    /\ ~SomeRecordFailed
    /\ has_received_all_confirmations

-----------------------------------------------------------------------------
(* C2 *)

\* C2 as stated: when a deliver event with both markers is ingested, every
\* registered record whose id in string form equals the id of the text is
\* DlrReceived(status of the text) when the ingestion returns.
C2_AsStated ==
    [][(IngestStep /\ HasBothMarkers(Ingested.text) /\ id_match(Ingested.text) # <<>>)
        => \A i \in RecordsWithId(sent_messages, id_match(Ingested.text)[1]) :
              /\ DlrReceived(sent_messages', i)
              /\ status_match(Ingested.text) # <<>>
                    => DlrReceivedWith(sent_messages', i, status_match(Ingested.text)[1])
      ]_vars

\* C2 amended: when a deliver event with both markers is ingested, the first
\* registered record (in registration order) whose id in string form equals
\* the id of the text is marked received when the ingestion returns, with
\* the status token of the text as its status, or its former status entry
\* when the text has no such token; every other record, a later one with the
\* same id included, is left as it was.
C2_FirstMatchMarked ==
    [][(IngestStep /\ HasBothMarkers(Ingested.text) /\ id_match(Ingested.text) # <<>>)
        => LET hits == RecordsWithId(sent_messages, id_match(Ingested.text)[1])
               st == status_match(Ingested.text)
           IN /\ DOMAIN sent_messages' = DOMAIN sent_messages
              /\ \A i \in DOMAIN sent_messages :
                    IF hits # {} /\ i = Min(hits)
                    THEN /\ DlrReceived(sent_messages', i)
                         /\ sent_messages'[i].sequence = sent_messages[i].sequence
                         /\ sent_messages'[i].info.message_id
                                = sent_messages[i].info.message_id
                         /\ IF st # <<>>
                            THEN DlrReceivedWith(sent_messages', i, st[1])
                            ELSE Get(sent_messages'[i].info, "dlr_status", <<>>)
                                    = Get(sent_messages[i].info, "dlr_status", <<>>)
                    ELSE sent_messages'[i] = sent_messages[i]
      ]_vars

\* two records with the same id: the report marked the first one only
C2_Witness ==
    /\ Len(sent_messages) = 2
    /\ sent_id_str(sent_messages[1].info) = sent_id_str(sent_messages[2].info)
    /\ DlrReceivedWith(sent_messages, 1, DELIVRD)
    /\ ~DlrReceived(sent_messages, 2)
    /\ \E i \in DOMAIN received_messages :
            /\ HasBothMarkers(received_messages[i].text)
            /\ id_match(received_messages[i].text)
                 = <<sent_id_str(sent_messages[1].info)>>

-----------------------------------------------------------------------------
(* C3 *)

\* C3 as stated: once a record is matched by a delivery report with a failure
\* status the completion predicate is true, with or without a logged reply,
\* and it is still true after any further ingested event.
C3_AsStated ==
    [][/\ SomeRecordFailed => has_received_all_confirmations
       /\ (SomeRecordFailed /\ IngestStep) => has_received_all_confirmations'
      ]_vars

-----------------------------------------------------------------------------
(* C4 *)

\* C4 as stated: the stored flag of every ingested event is true exactly when
\* its text holds both markers, and no later operation changes it.
C4_AsStated ==
    [][/\ \A i \in DOMAIN received_messages' :
            received_messages'[i].is_delivery_report
                <=> HasBothMarkers(received_messages'[i].text)
       /\ \A i \in DOMAIN received_messages :
            /\ i \in DOMAIN received_messages'
            /\ received_messages'[i].is_delivery_report
                 = received_messages[i].is_delivery_report
      ]_vars

\* C4 amended: the stored flag of every ingested event is true exactly when
\* its text holds both markers or starts with "b'id:", and no later
\* operation changes it.
C4_FlagSetOnce ==
    [][/\ \A i \in DOMAIN received_messages' :
            received_messages'[i].is_delivery_report
                <=> (\/ HasBothMarkers(received_messages'[i].text)
                     \/ StartsWith(received_messages'[i].text, S_b_id))
       /\ \A i \in DOMAIN received_messages :
            /\ i \in DOMAIN received_messages'
            /\ received_messages'[i].is_delivery_report
                 = received_messages[i].is_delivery_report
            /\ received_messages'[i].text = received_messages[i].text
      ]_vars

\* an event flagged as a delivery report whose text has no status marker,
\* with another event ingested after it
C4_Witness ==
    /\ Len(received_messages) = 2
    /\ received_messages[1].is_delivery_report
    /\ ~Contains(received_messages[1].text, S_stat)
    /\ StartsWith(received_messages[1].text, S_b_id)

-----------------------------------------------------------------------------
(* C5 *)

\* C5 as stated: when the delivery report matched to a record has no status
\* token the pattern matches, the record's status becomes UNKNOWN and the
\* completion predicate treats the record as failed.
C5_AsStated ==
    [][(/\ IngestStep
        /\ correlated_index(sent_messages, Ingested) # 0
        /\ status_match(Ingested.text) = <<>>)
        => /\ DlrReceivedWith(sent_messages',
                              correlated_index(sent_messages, Ingested), UNKNOWN)
           /\ has_received_all_confirmations'
      ]_vars

-----------------------------------------------------------------------------
(* Vocabulary of the claims about a send-receive run *)

REPORT_KINDS == {"Test completed", "Delivery report timeout", "Timeout reached"}

\* this step prints the final report line
ReportStep == report = NoReport /\ report' # NoReport

\* the listener is inside mo_message_handler, past line 165
InHandler == lpc \in {"appended", "tracked", "marked", "correlated"}

\* number of events whose handler call has returned
FullyIngested == Len(received_messages) - (IF InHandler THEN 1 ELSE 0)

\* what main prints when no inbound event arrives at all
SilenceReport ==
    [kind |-> "Timeout reached", mo |-> 0, dlr |-> 0, color |-> "RED"]

\* main has not printed its report and neither wait has expired; the reply
\* and the DELIVRD report matching the one sent record are both ingested
ConfirmedInsideWindows ==
    /\ report = NoReport
    /\ \/ opc = "wait_mo" /\ clock < T1
       \/ opc \in {"poll", "sleep"} /\ clock - start_time < T2
    /\ lpc = "idle"
    /\ mo_received
    /\ LoggedReply
    /\ Len(sent_messages) = 1
    /\ DlrReceivedWith(sent_messages, 1, DELIVRD)

-----------------------------------------------------------------------------
(* C6 *)

\* C6 as stated: with one sent message registered, a reply ingested before
\* T1 expires and a matching DELIVRD report ingested before T2 expires, at
\* whatever instant inside the windows, lead to the report 'Test completed'.
C6_AsStated == ConfirmedInsideWindows ~> (report.kind = "Test completed")

-----------------------------------------------------------------------------
(* C7 *)

-----------------------------------------------------------------------------
(* C8 *)

-----------------------------------------------------------------------------
(* C9 *)

\* C9 as stated: main evaluates has_received_all_confirmations only while
\* the listener is between two handler calls.
C9_AsStated ==
    [][(opc = "poll" /\ clock - start_time < T2 /\ opc' # "poll")
        => ~InHandler]_vars

-----------------------------------------------------------------------------
(* C10 *)

\* C10 as stated: a handler that raises does not end the receive loop: while
\* the session is open the listener keeps reading PDUs.
C10_AsStated == connected => lpc # "terminated"

-----------------------------------------------------------------------------
(* Vocabulary of the claims about the end of a run *)

Printed(text) == \E i \in DOMAIN logged : logged[i].line = text

Attempted(name) == \E i \in DOMAIN teardown : teardown[i].call = name

\* the failures of a call on the existing client that end a run
CLIENT_FAILURES == {"connect", "bind", "encode", "send"}

FailedOn(what) ==
    \E i \in DOMAIN logged : logged[i].line = "Error" /\ logged[i].about = what

\* every teardown call that raised has a printed line
TeardownFailuresLogged ==
    \A i \in DOMAIN teardown :
        ~teardown[i].ok => Printed("Disconnect error") \/ Printed("Unbind error")

-----------------------------------------------------------------------------
(* C11 *)

\* C11 as stated: a run the user interrupted during a wait ends only after
\* both unbind and disconnect were attempted, with every failed teardown
\* step printed, and with exit status 0.
C11_AsStated ==
    (exit_status # RUNNING /\ Printed("Stopped by user")) =>
        /\ Attempted("unbind")
        /\ Attempted("disconnect")
        /\ TeardownFailuresLogged
        /\ exit_status = 0

-----------------------------------------------------------------------------
(* C12 *)

\* C12: a run in which connect, bind, the encoding or the send failed on the
\* existing client never has exit status 0, and when it has exited its
\* status is 1 and disconnect was attempted on the session.
C12_FailurePathsTearDown ==
    \A what \in CLIENT_FAILURES :
        FailedOn(what) =>
            /\ client
            /\ exit_status # 0
            /\ exit_status # RUNNING =>
                    exit_status = 1 /\ Attempted("disconnect")

\* the encoding failed, disconnect was attempted and the process exited
C12_Witness ==
    /\ FailedOn("encode")
    /\ Attempted("disconnect")
    /\ exit_status = 1

-----------------------------------------------------------------------------
(* Vocabulary of the claims about the codecs *)

CodePoints == 0..1114111

Range(s) == {s[i] : i \in DOMAIN s}

\* entry of the character table at a 0-based index, '?' outside the table
Entry(index) ==
    IF index < 256 THEN GSM_CHARACTER_TABLE[index + 1] ELSE QUESTION_MARK

\* the codec the selector stands for
CodecOf(selector) ==
    IF selector = 0 \/ selector \in 240..255 THEN "gsm"
    ELSE IF selector = 1 THEN "ascii"
    ELSE IF selector = 2 THEN "utf-8"
    ELSE IF selector = 3 THEN "latin-1"
    ELSE IF selector = 8 THEN "utf-16be"
    ELSE "gsm"

EncodeWith(codec, s) ==
    CASE codec = "gsm" -> gsm_encode(s)
      [] codec = "ascii" -> encode_ascii(s)
      [] codec = "utf-8" -> encode_utf8(s)
      [] codec = "latin-1" -> encode_latin1(s)
      [] codec = "utf-16be" -> encode_utf16be(s)

DecodeWith(codec, b) ==
    CASE codec = "gsm" -> gsm_decode(b)
      [] codec = "ascii" -> decode_ascii(b)
      [] codec = "utf-8" -> decode_utf8_replace(b)
      [] codec = "latin-1" -> decode_latin1(b)
      [] codec = "utf-16be" -> decode_utf16be(b)

\* the byte string holds a pattern its codec has no character for
HasUnmapped(codec, b) ==
    CASE codec = "gsm" ->
            \E i \in 1..(Len(b) - 1) :
                /\ b[i] = ESCAPE /\ b[i + 1] >= 128
                /\ \A k \in 1..(i - 1) : b[k] # ESCAPE
      [] codec = "ascii" -> \E i \in 1..Len(b) : b[i] >= 128
      [] codec = "utf-8" -> utf8_strict_raises(b)
      [] codec = "latin-1" -> FALSE
      [] codec = "utf-16be" ->
            LET n == Len(b) \div 2
                u == [i \in 1..n |-> b[2*i - 1] * 256 + b[2*i]]
                High(x) == x \in 55296..56319
                Low(x) == x \in 56320..57343
            IN \/ Len(b) % 2 = 1
               \/ \E i \in 1..n :
                    \/ High(u[i]) /\ (i = n \/ ~Low(u[i + 1]))
                    \/ Low(u[i]) /\ (i = 1 \/ ~High(u[i - 1]))

\* the bytes that were decoded, whichever way they came
DecodedBytes == IF in_bytes # Absent THEN in_bytes.val ELSE out_encoded.val

-----------------------------------------------------------------------------
(* C13 *)

\* C13: for every byte string and every selector 0..255 decode_sms_message
\* returns a string: a non-empty input gives a non-empty text of code
\* points, and where the input holds a pattern its codec has no character
\* for, the text holds a placeholder ('?' for GSM 7-bit, U+FFFD otherwise).
C13_DecodeNeverFails ==
    out_decoded # Absent =>
        /\ out_decoded.kind = "str"
        /\ Range(out_decoded.val) \subseteq CodePoints
        /\ DecodedBytes # <<>> => out_decoded.val # <<>>
        /\ HasUnmapped(CodecOf(in_coding), DecodedBytes) =>
                \/ QUESTION_MARK \in Range(out_decoded.val)
                \/ REPLACEMENT \in Range(out_decoded.val)

\* the lone byte 0xFF decoded as UTF-8 gave the placeholder
C13_Witness ==
    /\ in_bytes = Bytes(<<255>>)
    /\ in_coding = 2
    /\ out_decoded = Str(<<REPLACEMENT>>)

-----------------------------------------------------------------------------
(* C14 *)

\* C14: for every selector 0..255, encode_sms_message and decode_sms_message
\* use the codec the selector stands for: GSM 7-bit for 0x00 and for a high
\* nibble 0xF, ASCII for 0x01, UTF-8 for 0x02, Latin-1 for 0x03, UTF-16BE
\* for 0x08, GSM 7-bit for every other value.
C14_SameCodecBothWays ==
    /\ out_encoded # Absent =>
            out_encoded = EncodeWith(CodecOf(in_coding), in_text.val)
    /\ out_decoded # Absent =>
            out_decoded.val = DecodeWith(CodecOf(in_coding), DecodedBytes)

\* a text was encoded and decoded again under selector 0x08
C14_Witness ==
    /\ in_coding = 8
    /\ in_text = Str(<<8364>>)
    /\ out_encoded = Bytes(<<32, 172>>)
    /\ out_decoded = Str(<<8364>>)

-----------------------------------------------------------------------------
(* C15 *)

\* C15 as stated: a text of characters of the GSM character table, encoded
\* and decoded again with selector 0x00, comes back unchanged.
C15_AsStated ==
    (/\ in_coding = 0
     /\ in_text # Absent
     /\ \A i \in 1..Len(in_text.val) : InGsmTable(in_text.val[i])
     /\ out_decoded # Absent)
    => out_decoded.val = in_text.val

-----------------------------------------------------------------------------
(* C16 *)

\* C16: gsm_decode of any byte string: up to the first 0x1B that has a byte
\* after it every byte decodes to the table entry at its own value (a lone
\* trailing 0x1B included); that 0x1B and the byte b after it decode to the
\* one entry at b + 0x80, '?' when that index is outside the table; the
\* rest decodes the same way.
C16_EscapeAlgorithm ==
    (in_bytes # Absent /\ in_coding = 0 /\ out_decoded # Absent) =>
        LET b == in_bytes.val
            r == out_decoded.val
            pairs == {i \in 1..(Len(b) - 1) : b[i] = ESCAPE}
        IN IF pairs = {}
           THEN r = [i \in 1..Len(b) |-> Entry(b[i])]
           ELSE LET k == Min(pairs) IN
                r = [i \in 1..(k - 1) |-> Entry(b[i])]
                    \o <<Entry(b[k + 1] + EXT_OFFSET)>>
                    \o gsm_decode(SubSeq(b, k + 2, Len(b)))

\* 0x1B 0x65 decoded to the entry at 0xE5, the euro sign
C16_Witness ==
    /\ in_bytes = Bytes(<<27, 101>>)
    /\ in_coding = 0
    /\ out_decoded = Str(<<8364>>)

-----------------------------------------------------------------------------
(* Vocabulary of the claims about addresses *)

\* the call made on in_address, and what it gave
Asked(call) == verdict.kind = call
Accepted == verdict.val = "ok"
Rejected == verdict.val = "ValueError"

\* a non-empty string of the digits 0-9
DigitString(s) == s # <<>> /\ \A i \in 1..Len(s) : s[i] \in Digits

\* a string of the digits 0-9 that starts with 0
LeadingZeroDigits(s) == DigitString(s) /\ s[1] = 48

-----------------------------------------------------------------------------
(* C17 *)

\* C17 as stated: validate_source_address rejects every string of digits
\* that starts with 0.
C17_AsStated ==
    (Asked("validate_source_address") /\ LeadingZeroDigits(in_address))
    => Rejected

\* C17: for every string of digits that starts with 0, validate_e164_address
\* raises ValueError, and validate_source_address raises ValueError exactly
\* when the string is longer than 11 characters (a shorter one is accepted,
\* as an alphanumeric address).
C17_LeadingZero ==
    LeadingZeroDigits(in_address) =>
        /\ Asked("validate_e164_address") => Rejected
        /\ Asked("validate_source_address") =>
                (Rejected <=> Len(in_address) > 11)
        /\ Asked("validate_source_address") =>
                (Accepted <=> Len(in_address) <= 11)

\* validate_source_address was given twelve digits that start with 0, and
\* raised
C17_Witness ==
    /\ in_address = <<48>> \o [i \in 1..11 |-> 53]
    /\ Asked("validate_source_address")
    /\ Rejected

-----------------------------------------------------------------------------
(* C18 *)

\* C18 as stated: for an address validate_source_address accepts,
\* is_valid_e164_address and is_valid_alphanumeric_address are not both true.
C18_AsStated ==
    (Asked("validate_source_address") /\ Accepted) =>
        ~(/\ is_valid_e164_address(in_address)
          /\ is_valid_alphanumeric_address(in_address))

\* C18: get_source_address_format gives every address validation accepts
\* exactly one kind, "e164" whenever is_valid_e164_address holds and
\* "alphanumeric" otherwise, and raises for every other address;
\* get_source_ton_npi derives (1, 1) and (5, 0) from that kind. The two
\* predicates are both true exactly for the strings of 7 to 11 digits 0-9
\* that do not start with 0.
C18_OneKindAssigned ==
    LET e164 == is_valid_e164_address(in_address)
        alnum == is_valid_alphanumeric_address(in_address)
    IN /\ Asked("get_source_address_format") =>
            /\ verdict.val \in {"e164", "alphanumeric", "ValueError"}
            /\ verdict.val = "e164" <=> e164
            /\ verdict.val = "alphanumeric" <=> (alnum /\ ~e164)
            /\ verdict.val = "ValueError" <=>
                    validate_source_address(in_address) = "ValueError"
       /\ Asked("get_source_ton_npi") =>
            /\ verdict.val \in {"1,1", "5,0", "ValueError"}
            /\ verdict.val = "1,1" <=> e164
            /\ verdict.val = "5,0" <=> (alnum /\ ~e164)
       /\ verdict.kind # "absent" =>
            ((e164 /\ alnum) <=>
                /\ DigitString(in_address)
                /\ in_address[1] # 48
                /\ Len(in_address) \in 7..11)

\* "1555555" satisfies both predicates and was classified e164
C18_Witness ==
    /\ in_address = <<49, 53, 53, 53, 53, 53, 53>>
    /\ is_valid_alphanumeric_address(in_address)
    /\ Asked("get_source_address_format")
    /\ verdict.val = "e164"

-----------------------------------------------------------------------------
(* C19 *)

\* 7 to 15 characters, all digits 0-9, the first one not 0
E164Shape(s) ==
    /\ Len(s) \in 7..15
    /\ DigitString(s)
    /\ s[1] # 48

\* 1 to 11 characters of the allowed set, no space first or last
AlphanumericShape(s) ==
    /\ Len(s) \in 1..11
    /\ \A i \in 1..Len(s) : s[i] \in AllowedChars
    /\ s[1] # SPACE
    /\ s[Len(s)] # SPACE

\* C19 as stated: validate_source_address accepts a string exactly when it
\* is 7 to 15 digits 0-9 not starting with 0, or at most 11 characters of
\* the allowed set with no leading or trailing space; it raises ValueError
\* for every other string.
C19_AsStated ==
    Asked("validate_source_address") =>
        /\ Accepted <=> (E164Shape(in_address) \/ AlphanumericShape(in_address))
        /\ Rejected <=> ~(E164Shape(in_address) \/ AlphanumericShape(in_address))

-----------------------------------------------------------------------------
(* C20 *)

\* the statuses a delivery report of the tracker's inputs can carry
Statuses == {UNDELIV, REJECTD, EXPIRED, UNKNOWN, DELIVRD}

\* C20 as stated: a record marked DlrReceived(status) is, after any register
\* or ingest step, still the record of the same sequence number, still marked
\* received, and still has the same status.
C20_AsStated ==
    [][\A i \in DOMAIN sent_messages :
            DlrReceived(sent_messages, i) =>
                /\ i \in DOMAIN sent_messages'
                /\ sent_messages'[i].sequence = sent_messages[i].sequence
                /\ DlrReceived(sent_messages', i)
                /\ \A st \in Statuses :
                        DlrReceivedWith(sent_messages, i, st)
                            => DlrReceivedWith(sent_messages', i, st)
      ]_vars

-----------------------------------------------------------------------------
(* C21 *)

\* this step is the correlation step matching the ingested delivery report
\* to record i
CorrelationStepFor(i) ==
    /\ IngestStep
    /\ Ingested.is_delivery_report
    /\ correlated_index(sent_messages, Ingested) = i

\* C21 as stated: the sequence numbers of the registry are pairwise
\* different, and every step keeps every record in its place, under its
\* sequence number, and unchanged unless the step is the correlation step
\* that matches a delivery report to that record.
C21_AsStated ==
    [][/\ \A i, j \in DOMAIN sent_messages' :
            sent_messages'[i].sequence = sent_messages'[j].sequence => i = j
       /\ \A i \in DOMAIN sent_messages :
            /\ i \in DOMAIN sent_messages'
            /\ sent_messages'[i].sequence = sent_messages[i].sequence
            /\ sent_messages'[i] # sent_messages[i] => CorrelationStepFor(i)
      ]_vars

-----------------------------------------------------------------------------
(* Vocabulary of the claims about single handler calls *)

\* the PDU of the last handler call is a deliver_sm the handler logged
LoggedDeliver(pdu) ==
    /\ "command" \in DOMAIN pdu
    /\ pdu.command = "deliver_sm"
    /\ ~handler_raises(pdu)

\* log is the first part of longer
IsPrefix(log, longer) ==
    /\ Len(log) <= Len(longer)
    /\ \A i \in DOMAIN log : longer[i] = log[i]

-----------------------------------------------------------------------------
(* C22 *)

\* C22: every call of a handler leaves the entries of received_messages in
\* place and unchanged and adds at most one entry, at the end; a call of
\* mo_message_handler with a deliver_sm it can decode adds exactly the entry
\* built from that PDU.
C22_AppendOnly ==
    [][/\ IsPrefix(received_messages, received_messages')
       /\ Len(received_messages') <= Len(received_messages) + 1
       /\ LoggedDeliver(in_pdu') =>
            received_messages' = Append(received_messages, mo_message(in_pdu'))
       /\ received_messages' # received_messages => LoggedDeliver(in_pdu')
      ]_vars

\* a reply and then a delivery report were ingested, in that order
C22_Witness ==
    /\ Len(received_messages) = 2
    /\ received_messages[1].text = P_hi
    /\ received_messages[2].text = P_dlr1_DELIVRD
    /\ in_pdu = DeliverSm(P_dlr1_DELIVRD, A_46)

-----------------------------------------------------------------------------
(* C27 *)

\* C27 as stated: a call of mo_message_handler with a deliver_sm that carries
\* a receipted message id logs the event as a delivery report, does not raise
\* the count of incoming (MO) messages and does not set mo_received.
C27_AsStated ==
    [][(LoggedDeliver(in_pdu') /\ HasReceipt(in_pdu')) =>
            /\ received_messages'[Len(received_messages')].is_delivery_report
            /\ actual_mo_count' = actual_mo_count
            /\ mo_received' = mo_received
      ]_vars

-----------------------------------------------------------------------------
(* C23 *)

\* C23 as stated: while main is in its first wait, the wait is released
\* (mo_received is set) as soon as the handler call of any deliver event has
\* returned, and in particular once a record has a delivery report with a
\* failure status.
C23_AsStated ==
    (opc = "wait_mo" /\ lpc = "idle") =>
        /\ FullyIngested > 0 => mo_received
        /\ SomeRecordFailed => mo_received

-----------------------------------------------------------------------------
(* C24 *)

\* C24 as stated: with the same two instants of arrival, the run in which
\* the delivery report arrives first and the reply second reports the same
\* outcome as the run in which the reply arrives first.
C24_AsStated ==
    (order = "report_first" /\ report # NoReport) => report.kind = first_outcome

-----------------------------------------------------------------------------
(* C25 *)

\* the user interrupted the run
Interrupted == Printed("Stopped by user")

\* C25 as stated: in every mode of the receiver and in the sender, a run
\* that has reached its wait and is not interrupted reaches the shutdown
\* step, where the disconnect is attempted.
C25_AsStated ==
    (phase = "wait") ~> (Attempted("disconnect") \/ Interrupted)

\* C25: in the send-receive mode of the receiver and in the sender, a run
\* that has reached its wait and is not interrupted reaches the shutdown
\* step, where the disconnect is attempted; in receive-only mode the run
\* leaves its wait only by an interrupt.
C25_BoundedWaits ==
    /\ (phase = "wait" /\ tool_args.mode # "receive-only")
            ~> (Attempted("disconnect") \/ Interrupted)
    /\ [][(phase = "wait" /\ tool_args.mode = "receive-only"
                /\ phase' # "wait") => Interrupted']_vars

\* a send-receive run of the receiver went through its waits to the
\* disconnect, with no interrupt
C25_Witness ==
    /\ tool_args.tool = "receiver"
    /\ tool_args.mode = "send-receive"
    /\ phase = "done"
    /\ Attempted("disconnect")
    /\ ~Interrupted

-----------------------------------------------------------------------------
(* C26 *)

\* C26: when the text of the test message holds a character that is not in
\* the GSM character table, the encoding raises, client.send_message is not
\* called (no response is ever pending), no sent record is registered and
\* nothing is logged.
C26_EncodeFailureAborts ==
    (opc # "start" /\ \E i \in 1..Len(in_text.val) : ~InGsmTable(in_text.val[i]))
    => /\ out_encoded = Raises("EncodeError")
       /\ opc \in {"failed", "done"}
       /\ ~resp_pending
       /\ sent_messages = <<>>
       /\ received_messages = <<>>
       /\ delivery_reports_received = <<>>
       /\ ~mo_received

\* the send of a text with U+1F600 failed and the run ended
C26_Witness ==
    /\ in_text = Str(<<65, 128512>>)
    /\ out_encoded = Raises("EncodeError")
    /\ opc = "done"
    /\ sent_messages = <<>>

-----------------------------------------------------------------------------
(* C28 *)

\* C28: a record is marked as having its delivery report only by the step
\* that ingests a delivery report matching it: a registration leaves the
\* record it writes unmarked, whatever the log already holds, and while a
\* record is unmarked all_dlrs_received is false.
C28_NoLateCorrelation ==
    [][/\ \A i \in DOMAIN sent_messages' :
            (/\ DlrReceived(sent_messages', i)
             /\ ~(i \in DOMAIN sent_messages /\ DlrReceived(sent_messages, i)))
            => CorrelationStepFor(i)
       /\ ~IngestStep =>
            \A i \in DOMAIN sent_messages' :
                (i \notin DOMAIN sent_messages
                    \/ sent_messages'[i] # sent_messages[i])
                => ~DlrReceived(sent_messages', i)
       /\ (\E i \in DOMAIN sent_messages' : ~DlrReceived(sent_messages', i))
            => ~all_dlrs_received(sent_messages')
      ]_vars

\* the delivery report for id 1 was logged, the record with id 1 is
\* registered and has no delivery report, and a reply is logged as well
C28_Witness ==
    /\ Len(received_messages) = 2
    /\ received_messages[1].text = P_dlr1_DELIVRD
    /\ ~received_messages[2].is_delivery_report
    /\ Len(sent_messages) = 1
    /\ sent_id_str(sent_messages[1].info) = <<49>>
    /\ ~DlrReceived(sent_messages, 1)
    /\ ~has_received_all_confirmations

-----------------------------------------------------------------------------
(* Vocabulary of the claims about the automatic choice *)

AutoAsked(call) == auto_result.kind = call

\* every character of the text is in the GSM character table
GsmEncodable(text) == \A i \in 1..Len(text) : InGsmTable(text[i])

\* the text holds a character that is neither ASCII nor in the table
HasForeignChar(text) ==
    \E i \in 1..Len(text) : text[i] >= 128 /\ ~InGsmTable(text[i])

-----------------------------------------------------------------------------
(* C29 *)

\* C29: auto_select_encoding returns 'gsm' with the GSM encoding when every
\* character of the text is GSM-encodable, and 'ascii' with the ASCII
\* encoding (a '?' for every other character) otherwise; it never returns
\* latin1, utf8 or ucs2, and the bytes it returns for a text with a
\* character that is neither ASCII nor GSM-encodable do not decode back to
\* the text.
C29_GsmOrAscii ==
    AutoAsked("auto_select_encoding") =>
        LET text == in_text.val IN
        /\ auto_result.encoding \in {"gsm", "ascii"}
        /\ auto_result.encoding = "gsm" <=> GsmEncodable(text)
        /\ GsmEncodable(text) => auto_result.data = gsm_encode(text)
        /\ ~GsmEncodable(text) => auto_result.data = encode_ascii(text)
        /\ HasForeignChar(text) =>
                decode_sms_message(auto_result.data,
                    ENCODING_TO_DATA_CODING(auto_result.encoding)) # text

\* for c-cedilla, which Latin-1 can encode, 'ascii' and a '?' were returned
C29_Witness ==
    /\ in_text = Str(<<231>>)
    /\ AutoAsked("auto_select_encoding")
    /\ auto_result.encoding = "ascii"
    /\ auto_result.data = Bytes(<<QUESTION_MARK>>)

-----------------------------------------------------------------------------
(* C30 *)

\* C30: auto_detect_encoding returns 'gsm' with the GSM decoding for every
\* byte string that is not empty; for the empty byte string it returns
\* (None, None), and main prints the decoding failure and exits with 1.
C30_AlwaysGsm ==
    AutoAsked("auto_detect_encoding") =>
        IF in_bytes.val # <<>>
        THEN /\ auto_result.encoding = "gsm"
             /\ auto_result.data = Str(gsm_decode(in_bytes.val))
             /\ exit_status = 0
        ELSE /\ auto_result.encoding = NoEncoding
             /\ auto_result.data = None
             /\ Printed("Could not decode message")
             /\ exit_status = 1

\* the two bytes of e-acute in UTF-8 were detected as 'gsm'
C30_Witness ==
    /\ in_bytes = Bytes(<<195, 169>>)
    /\ AutoAsked("auto_detect_encoding")
    /\ auto_result.encoding = "gsm"

====
